---- MODULE Spec2Model ----
(***************************************************************************)
(* A model of the XRP ETF tracker backend (src/server.js and its variants  *)
(* src/server-with-ai.js, src/complete-backend-additions.js): the          *)
(* time-windowed caches with their refresh and fallback paths, the         *)
(* per-client rate limiter, the daily exchange-holdings snapshot and the   *)
(* one-shot daily scheduler.                                               *)
(*                                                                         *)
(* Time is Date.now() counted in units of 100 ms (TLC's integers do not     *)
(* hold 90 days of milliseconds); every duration of the code is a multiple *)
(* of that and is converted with Units.  Every await of the source is a    *)
(* point where other callbacks may run, so a handler is split into the     *)
(* step that runs up to its await and the step that runs after it; code    *)
(* between two awaits is one atomic step (one JavaScript turn).            *)
(***************************************************************************)
EXTENDS Integers, Sequences, FiniteSets, TLC

None == "none"
\* null of the source, and every other falsy "nothing there" (0 for a
\* timestamp); payloads are positive numbers.
Null == 0

\* ------------------------------------------------------------------------
\* Program constants
\* ------------------------------------------------------------------------
RATE_LIMIT_WINDOW == 60000
MAX_REQUESTS == 10
\* scheduleDailySnapshot: the daily target, 23:59 UTC
targetHour == 23
targetMinute == 59
\* takeDailySnapshot: "Keep only last 90 days"
TREND_LIMIT == 90
\* app.listen: setTimeout(() => takeDailySnapshot(), 5000)
STARTUP_SNAPSHOT_DELAY == 5000
\* fetchAllExchangeHoldings: the delay awaited after every wallet
WALLET_DELAY == 100
\* Cache durations, in ms
COINGECKO_CACHE_DURATION == 10 * 60 * 1000
ETF_CACHE_DURATION == 60 * 1000
AI_CACHE_DURATION == 5 * 60 * 1000
ONCHAIN_CACHE_DURATION == 5 * 60 * 1000
EXCHANGE_CACHE_DURATION == 60 * 60 * 1000
SENTIMENT_CACHE_DURATION == 2 * 60 * 1000
RICHLIST_CACHE_DURATION == 30 * 60 * 1000
\* server-with-ai.js: CACHE_DURATION of its insightCache
CACHE_DURATION == 5 * 60 * 1000
\* EXCHANGE_WALLETS: the number of wallet addresses, all exchanges together
WALLET_COUNT == 35
\* setInterval(..., 60000)
POLL_INTERVAL == 60000
\* if (utcMinute > 1) return
MINUTE_TOLERANCE == 1
\* retryAfter: 60 (server-with-ai.js)
RETRY_AFTER == 60
\* server.js COINGECKO_MIN_INTERVAL (ms)
COINGECKO_MIN_INTERVAL == 2500

\* A duration of the source, given in ms, in units of the model's clock:
\* one unit is WALLET_DELAY, the finest duration the code uses.
Units(ms) == ms \div WALLET_DELAY

MsPerMinute == Units(60 * 1000)
MsPerHour == 60 * MsPerMinute
MsPerDay == 24 * MsPerHour

\* ------------------------------------------------------------------------
\* Bounds of the model
\* ------------------------------------------------------------------------
\* Clock advances taken in one run of the rate-limiter specification.
MaxRateTicks == 2
\* Calls of the second client in one run of the rate-limiter specification.
MaxOtherCalls == 1

\* Manual POST /api/exchange/snapshot requests in one run.
MaxManual == 1
\* UTC days the clock may run past the day the run starts in.
MaxSnapDays == 0
\* The most a timer fires after its deadline, in clock units.
MaxLate == 0
\* The daily scheduler alone: days the clock runs through, and how late (in
\* clock units) a daily timer may fire.
MaxSchedDays == 2
MaxSchedLate == 1
\* HTTP requests to the cached endpoints in one run.
MaxRequests == 2
\* HTTP requests in a run that is about /api/etf-data alone.
MaxEtfRequests == 3
\* HTTP requests in a run that is about the on-chain endpoints.
MaxOnChainRequests == 3
\* The email specification: clock advances and requests to POST
\* /api/send-email and GET /api/x-post in one run.
MaxPolls == 4
MaxEmailPosts == 2
\* The hours (UTC) a run of the email specification starts in, at minute 58,
\* and the seconds of that minute.
EmailStartHours == {9, 15, 20, 23}
EmailStartSeconds == {0, 20}
\* Clock advances taken in one run of the cache specification.
MaxCacheTicks == 1
\* Requests and clock advances taken together in one run of the cache
\* specification.
MaxCacheEvents == 3
\* The upstream specification: invocations of coingeckoRequest and of
\* fetchXRPLBalance in one run, and clock advances.
MaxCgCalls == 3
MaxBalanceCalls == 2
MaxUpTicks == 2

Clients == {"a", "b"}
\* The clock advances of the rate-limiter specification: inside the window,
\* up to its edge, and past it.
RateSteps == {Units(1000), Units(RATE_LIMIT_WINDOW)}

\* The UTC day a run starts in (day 0 is 1970-01-01).
StartDay == 1000
\* Times of day (after 00:00 UTC) at which a process may start.
StartOffsets == {0,
                 23 * MsPerHour,
                 23 * MsPerHour + 59 * MsPerMinute - 1,
                 23 * MsPerHour + 59 * MsPerMinute}
\* How far America/Los_Angeles is behind UTC (standard time).
LosAngelesOffset == 8 * MsPerHour
\* Times of day the clock stops at besides the deadlines of the timers:
\* midnight in Los Angeles, where formatDateKey changes its value.
DayMarks == {LosAngelesOffset}
\* The totals an XRPL fetch may report.
Totals == {1, 2}
Sources == {"startup", "timer", "manual"}

VARIABLES
    now,            \* Date.now(), in clock units
    rateLimitMap,   \* server.js rateLimitMap: client -> list of timestamps
    acceptedLog,    \* history: client -> every timestamp isRateLimited accepted
    lastCall,       \* history: the last isRateLimited call and its outcome
    rateTicks,      \* clock advances taken (bounded)
    otherCalls,     \* calls made by client "b" (bounded)
    tzOffset,       \* how far Los Angeles is behind UTC
    booted,         \* the app.listen callback has run
    dailyHoldingsTrend,     \* server.js dailyHoldingsTrend
    exchangeHoldingsCache,  \* server.js exchangeHoldingsCache
    dailyTimers,    \* the pending setTimeout timers of scheduleDailySnapshot
    startupTimers,  \* the pending setTimeout of the app.listen callback (its deadline)
    snapshots,      \* takeDailySnapshot invocations waiting in their await
    lastDone,       \* history: what the last finished takeDailySnapshot did
    lastFiring,     \* history: the deadline and the firing time of the daily timer that fired last
    manualCount,    \* POST /api/exchange/snapshot requests made (bounded)
    anthropic,      \* server.js anthropic: ANTHROPIC_API_KEY is configured
    etfDataCache,   \* server.js etfDataCache
    insightCache,   \* server.js insightCache
    insightCacheWithAi,     \* server-with-ai.js insightCache
    sentimentCache, \* server.js sentimentCache
    richListCache,  \* server.js richListCache
    coingeckoCache, \* server.js coingeckoCache: key -> entry (data Null: no entry)
    onChainCache,   \* server.js onChainCache
    inflight,       \* requests waiting in the await of their upstream fetch
    lastResponse,   \* history: the last response sent
    firstFetched,   \* history: the first response sent after an upstream fetch, in short
    lastFetch,      \* history: slot -> when its last successful fetch was stored
    requestCount,   \* requests made (bounded)
    focus,          \* the group of endpoints that is requested in this run
    uncaught,       \* history: the endpoints whose handler threw outside any try
    generatedFrom,  \* history: the marketData each stored analysis was generated from
    cacheTicks,     \* clock advances taken (bounded)
    emailEnabled,   \* server.js emailEnabled: RESEND_API_KEY is set
    emailSecret,    \* process.env.EMAIL_SECRET (Undefined when unset)
    pollTimers,     \* the due times of the interval scheduleEmails set
    emailJobs,      \* running sendXPostEmail invocations
    emailLog,       \* history: every start of sendXPostEmail, in order
    lastPoll,       \* history: the last run of the interval's callback
    lastEmailResponse,  \* history: the last response of POST /api/send-email
    pollCount,      \* clock advances of the email specification (bounded)
    emailPosts,     \* requests to POST /api/send-email and GET /api/x-post (bounded)
    xPostJobs,      \* how many GET /api/x-post handlers wait for generateXPostSummary
    lastSummary,    \* history: the last return of generateXPostSummary
    lastCoinGeckoCall,  \* server.js lastCoinGeckoCall (0 before the first call)
    cgRequests,     \* invocations of coingeckoRequest that have not returned
    cgStarts,       \* history: when each CoinGecko fetch was started, in order
    lastCgReturn,   \* history: the last return of coingeckoRequest
    balanceCalls,   \* invocations of fetchXRPLBalance that have not returned
    lastBalance,    \* history: the last return of fetchXRPLBalance
    upCount,        \* invocations of coingeckoRequest (bounded)
    balanceCount,   \* invocations of fetchXRPLBalance (bounded)
    upTicks         \* clock advances of the upstream specification (bounded)

rateVars == <<rateLimitMap, acceptedLog, lastCall, rateTicks, otherCalls>>
snapVars == <<tzOffset, booted, dailyHoldingsTrend, exchangeHoldingsCache,
              dailyTimers, startupTimers, snapshots, lastDone, lastFiring,
              manualCount>>
cacheVars == <<anthropic, etfDataCache, insightCache, insightCacheWithAi, sentimentCache,
               richListCache, coingeckoCache, onChainCache, inflight, lastResponse,
               firstFetched, lastFetch, requestCount, focus, uncaught, generatedFrom, cacheTicks>>
emailVars == <<emailEnabled, emailSecret, pollTimers, emailJobs, emailLog, lastPoll,
               lastEmailResponse, pollCount, emailPosts, xPostJobs, lastSummary>>
upVars == <<lastCoinGeckoCall, cgRequests, cgStarts, lastCgReturn, balanceCalls, lastBalance,
            upCount, balanceCount, upTicks>>
vars == <<now, rateVars, snapVars, cacheVars, emailVars, upVars>>

\* The instant a run starts counting from.
T0 == StartDay * MsPerDay

\* ------------------------------------------------------------------------
\* Rate limiter (server.js 513-526, server-with-ai.js 42-59)
\* ------------------------------------------------------------------------
\* requests.filter(t => t > now - RATE_LIMIT_WINDOW)
recentRequests(requests, t) ==
    SelectSeq(requests, LAMBDA x : x > t - Units(RATE_LIMIT_WINDOW))

\* A limiter that also counts a timestamp exactly one window old.
RateLimitedInclusive(requests, t) ==
    Len(SelectSeq(requests, LAMBDA x : x >= t - Units(RATE_LIMIT_WINDOW))) >= MAX_REQUESTS

\* The value isRateLimited returns: recentRequests.length >= MAX_REQUESTS
RateLimited(requests, t) ==
    Len(recentRequests(requests, t)) >= MAX_REQUESTS

\* A limiter that records the attempt before it checks the quota.
RecordedAlways(requests, t) ==
    Append(recentRequests(requests, t), t)

\* A limiter that never stores the list it has built.
RecordedNowhere(requests, t) == requests

\* The list stored for the client after the call: unchanged on rejection,
\* the pruned list with the new timestamp appended on acceptance.
Recorded(requests, t) ==
    IF RateLimited(requests, t)
        THEN requests
        ELSE Append(recentRequests(requests, t), t)

\* Number of accepted calls of client ip in the window (t - 60 s, t].
AcceptedInWindow(ip, t) ==
    Cardinality({i \in 1..Len(acceptedLog[ip]) :
                    /\ acceptedLog[ip][i] > t - Units(RATE_LIMIT_WINDOW)
                    /\ acceptedLog[ip][i] <= t})

\* A limiter that keeps one list for all clients.
isRateLimitedShared(ip) ==
    /\ rateLimitMap' = [rateLimitMap EXCEPT !["a"] = Recorded(rateLimitMap["a"], now)]
    /\ lastCall' = [ip |-> ip, at |-> now,
                    limited |-> RateLimited(rateLimitMap["a"], now),
                    inWindow |-> AcceptedInWindow(ip, now)]
    /\ acceptedLog' = IF RateLimited(rateLimitMap["a"], now)
                        THEN acceptedLog
                        ELSE [acceptedLog EXCEPT ![ip] = Append(@, now)]

\* isRateLimited(ip), called at the current time
isRateLimited(ip) ==
    /\ rateLimitMap' = [rateLimitMap EXCEPT ![ip] = Recorded(rateLimitMap[ip], now)]
    /\ lastCall' = [ip |-> ip, at |-> now,
                    limited |-> RateLimited(rateLimitMap[ip], now),
                    inWindow |-> AcceptedInWindow(ip, now)]
    /\ acceptedLog' = IF RateLimited(rateLimitMap[ip], now)
                        THEN acceptedLog
                        ELSE [acceptedLog EXCEPT ![ip] = Append(@, now)]

\* A request of client ip to an endpoint that asks the limiter
\* (POST /api/ai-insights, POST /api/chat), as far as the limiter goes.
RateCall ==
    \E ip \in Clients :
        /\ ip = "b" => otherCalls < MaxOtherCalls
        /\ isRateLimited(ip)
        /\ otherCalls' = IF ip = "b" THEN otherCalls + 1 ELSE otherCalls
        /\ UNCHANGED <<now, rateTicks, snapVars, cacheVars, emailVars, upVars>>

RateTick ==
    /\ rateTicks < MaxRateTicks
    /\ \E d \in RateSteps : now' = now + d
    /\ rateTicks' = rateTicks + 1
    /\ UNCHANGED <<rateLimitMap, acceptedLog, lastCall, otherCalls, snapVars, cacheVars, emailVars, upVars>>

InitRate ==
    /\ rateLimitMap = [ip \in Clients |-> <<>>]
    /\ acceptedLog = [ip \in Clients |-> <<>>]
    /\ lastCall = [ip |-> None, at |-> T0, limited |-> FALSE, inWindow |-> 0]
    /\ rateTicks = 0
    /\ otherCalls = 0

NextRate == RateCall \/ RateTick

\* ------------------------------------------------------------------------
\* Daily exchange-holdings snapshot (server.js 368-423)
\* ------------------------------------------------------------------------
\* formatDateKey: the calendar date in America/Los_Angeles, as a day number
\* (the YYYY-MM-DD strings of the source order as their day numbers do).
\* toLocaleString renders the Los Angeles wall clock, new Date() reads it
\* back as server-local time and toISOString prints the UTC date of that:
\* on a server whose local zone is UTC this is the Los Angeles date.
formatDateKey(t) == (t - tzOffset) \div MsPerDay

\* dailyHoldingsTrend.findIndex(d => d.date === today); 0 when there is none
findIndex(trend, today) ==
    IF \E i \in 1..Len(trend) : trend[i].date = today
        THEN CHOOSE i \in 1..Len(trend) :
                /\ trend[i].date = today
                /\ \A j \in 1..(i - 1) : trend[j].date # today
        ELSE 0

\* trend.sort((a, b) => a.date.localeCompare(b.date)): a stable sort.  It
\* leaves a sorted array as it is; otherwise an entry's place is the number
\* of entries that sort before it or are it: those of an earlier date, and
\* those of its own date not after it.
SortByDate(s) ==
    IF \A i \in 1..(Len(s) - 1) : s[i].date <= s[i + 1].date
    THEN s
    ELSE LET place == [i \in 1..Len(s) |->
                        Cardinality({j \in 1..Len(s) :
                            \/ s[j].date < s[i].date
                            \/ s[j].date = s[i].date /\ j <= i})]
         IN  [k \in 1..Len(s) |-> s[CHOOSE i \in 1..Len(s) : place[i] = k]]

\* A snapshot that appends without looking for today's entry.
StoreEntryAlwaysPush(trend, entry) ==
    SortByDate(Append(trend, entry))

\* A snapshot that leaves the entry it finds for today as it is.
StoreEntryKeepOld(trend, entry) ==
    IF findIndex(trend, entry.date) > 0
        THEN trend
        ELSE SortByDate(Append(trend, entry))

\* if (existingIndex >= 0) overwrite in place, else push and sort
StoreEntry(trend, entry) ==
    IF findIndex(trend, entry.date) > 0
        THEN [trend EXCEPT ![findIndex(trend, entry.date)] = entry]
        ELSE SortByDate(Append(trend, entry))

\* A cut that keeps the first 90 entries instead of the last 90.
KeepFirst(trend) ==
    IF Len(trend) > TREND_LIMIT THEN SubSeq(trend, 1, TREND_LIMIT) ELSE trend

\* if (trend.length > 90) trend = trend.slice(-90)
KeepLast(trend) ==
    IF Len(trend) > TREND_LIMIT
        THEN SubSeq(trend, Len(trend) - TREND_LIMIT + 1, Len(trend))
        ELSE trend

\* A slice that takes the first entries: trend.slice(0, days).
trendDataFromStart(trend, days) ==
    SubSeq(trend, 1, IF days < Len(trend) THEN days ELSE Len(trend))

\* GET /api/exchange/trend: dailyHoldingsTrend.slice(-days), for days >= 1
\* the last days entries, or all when there are no more than that
trendData(trend, days) ==
    SubSeq(trend, IF days < Len(trend) THEN Len(trend) - days + 1 ELSE 1, Len(trend))

\* GET /api/exchange/trend: the body of the response as far as it is read
\* from dailyHoldingsTrend.  The handler has no await and assigns nothing.
GetExchangeTrend(days) ==
    [trend |-> trendData(dailyHoldingsTrend, days),
     count |-> Len(dailyHoldingsTrend),
     latest |-> IF Len(dailyHoldingsTrend) = 0
                  THEN Null
                  ELSE dailyHoldingsTrend[Len(dailyHoldingsTrend)]]

\* The entry takeDailySnapshot builds after its await, at time t, from the
\* holdings fetched (total stands for holdings.total and the per-exchange
\* totals copied with it).
NewEntry(total, t) ==
    [date |-> formatDateKey(t), total |-> total, timestamp |-> t]

\* fetchAllExchangeHoldings awaits WALLET_DELAY after every wallet, so an
\* invocation cannot finish sooner than this after it started.
MinSnapshotMs == WALLET_COUNT * Units(WALLET_DELAY)

\* ------------------------------------------------------------------------
\* Daily scheduler (server.js 425-451)
\* ------------------------------------------------------------------------
\* target = new Date(now); target.setUTCHours(23, 59, 0, 0)
TargetToday(t) ==
    (t \div MsPerDay) * MsPerDay + targetHour * MsPerHour + targetMinute * MsPerMinute

\* A comparison that lets the instant of the target itself count as "before".
PassedTargetStrict(t) == t > TargetToday(t)

\* if (now >= target): today's target has passed
PassedTarget(t) == t >= TargetToday(t)

\* A fixed period instead of a target computed anew: one day from now.
NextTargetFromNow(t) == t + MsPerDay

\* target after the correction; setUTCDate(getUTCDate() + 1) adds one UTC day
NextTarget(t) ==
    IF PassedTarget(t) THEN TargetToday(t) + MsPerDay ELSE TargetToday(t)

msUntilTarget(t) == NextTarget(t) - t

\* The timer scheduleDailySnapshot arms when it runs at time t.
scheduleDailySnapshot(t) ==
    [at |-> t + msUntilTarget(t), setAt |-> t, delay |-> msUntilTarget(t)]

\* scheduleEmails: with email enabled, set the interval that polls every
\* POLL_INTERVAL; else return at once.
scheduleEmails(t) == IF emailEnabled THEN {t + Units(POLL_INTERVAL)} ELSE {}

\* app.listen callback: start the email scheduler, arm the daily timer, and
\* as no snapshot of today is stored, arm the startup snapshot 5 s from now.
Listen ==
    /\ ~booted
    /\ booted' = TRUE
    /\ pollTimers' = pollTimers \cup scheduleEmails(now)
    /\ dailyTimers' = dailyTimers \cup {scheduleDailySnapshot(now)}
    /\ startupTimers' = IF \E i \in 1..Len(dailyHoldingsTrend) :
                            dailyHoldingsTrend[i].date = formatDateKey(now)
                          THEN startupTimers
                          ELSE startupTimers \cup {now + Units(STARTUP_SNAPSHOT_DELAY)}
    /\ UNCHANGED <<now, tzOffset, dailyHoldingsTrend, exchangeHoldingsCache,
                   snapshots, lastDone, lastFiring, manualCount, rateVars, cacheVars,
                   emailEnabled, emailSecret, emailJobs, emailLog, lastPoll,
                   lastEmailResponse, pollCount, emailPosts, xPostJobs, lastSummary,
                   upVars>>

\* takeDailySnapshot up to its await
StartSnapshot(src) ==
    snapshots' = snapshots \cup {[src |-> src, startedAt |-> now]}

\* The startup timer fires: takeDailySnapshot()
StartupTimerFire ==
    \E at \in startupTimers :
        /\ now >= at
        /\ startupTimers' = startupTimers \ {at}
        /\ StartSnapshot("startup")
        /\ UNCHANGED <<now, tzOffset, booted, dailyHoldingsTrend, exchangeHoldingsCache,
                       dailyTimers, lastDone, lastFiring, manualCount, rateVars, cacheVars,
                       emailVars, upVars>>

\* The daily timer fires: await takeDailySnapshot()
DailyTimerFire ==
    \E timer \in dailyTimers :
        /\ now >= timer.at
        /\ dailyTimers' = dailyTimers \ {timer}
        /\ StartSnapshot("timer")
        /\ lastFiring' = <<[deadline |-> timer.at, firedAt |-> now]>>
        /\ UNCHANGED <<now, tzOffset, booted, dailyHoldingsTrend, exchangeHoldingsCache,
                       startupTimers, lastDone, manualCount, rateVars, cacheVars,
                       emailVars, upVars>>

\* POST /api/exchange/snapshot: await takeDailySnapshot()
PostSnapshot ==
    /\ booted
    /\ manualCount < MaxManual
    /\ manualCount' = manualCount + 1
    /\ [src |-> "manual", startedAt |-> now] \notin snapshots
    /\ StartSnapshot("manual")
    /\ UNCHANGED <<now, tzOffset, booted, dailyHoldingsTrend, exchangeHoldingsCache,
                   dailyTimers, startupTimers, lastDone, lastFiring, rateVars, cacheVars,
                   emailVars, upVars>>

\* The entries of a trend, as a set.
Entries(trend) == {trend[i] : i \in 1..Len(trend)}

\* The record of a finished takeDailySnapshot: who invoked it, the entry it
\* returned, the length of the trend before it, the number of stored
\* entries of the entry's date it found, the dates that were stored before
\* or by it and that the trend has no more, and who else was running.
Done(src, entry, before, after, others) ==
    [src |-> src,
     entry |-> entry,
     lenBefore |-> Len(before),
     found |-> Cardinality({i \in 1..Len(before) : before[i].date = entry.date}),
     evicted |-> ({e.date : e \in Entries(before)} \cup {entry.date})
                    \ {k.date : k \in Entries(after)},
     during |-> {o.src : o \in others}]

\* Every finished snapshot arms a timer, whoever invoked it.
AfterAnySnapshot(src, timers, t) == timers \cup {scheduleDailySnapshot(t)}

\* What follows the await of takeDailySnapshot in its caller: the timer's
\* callback calls scheduleDailySnapshot, whatever takeDailySnapshot returned;
\* the startup timer's callback and the POST handler arm nothing.
AfterSnapshot(src, timers, t) ==
    IF src = "timer" THEN timers \cup {scheduleDailySnapshot(t)} ELSE timers

\* takeDailySnapshot after its await, in one turn: build today's entry,
\* store it, cut the trend to 90 entries, refresh exchangeHoldingsCache and
\* return the entry.  The timer's callback then arms the next day's timer.
\* (fetchAllExchangeHoldings catches every upstream failure and counts the
\* wallet as missing, so the catch of takeDailySnapshot is never entered.)
FinishSnapshot(inv, total) ==
    /\ now >= inv.startedAt + MinSnapshotMs
    /\ snapshots' = snapshots \ {inv}
    /\ dailyHoldingsTrend' = KeepLast(StoreEntry(dailyHoldingsTrend, NewEntry(total, now)))
    /\ exchangeHoldingsCache' = [data |-> total, timestamp |-> now]
    /\ lastDone' = <<Done(inv.src, NewEntry(total, now), dailyHoldingsTrend,
                          dailyHoldingsTrend', snapshots \ {inv})>>
    /\ dailyTimers' = AfterSnapshot(inv.src, dailyTimers, now)
    /\ UNCHANGED <<now, tzOffset, booted, startupTimers, lastFiring, manualCount, rateVars,
                   cacheVars, emailVars, upVars>>

SnapshotDone == \E inv \in snapshots : \E total \in Totals : FinishSnapshot(inv, total)

\* The instants the clock stops at: the marks of every day, the deadline of
\* each armed timer and the instants up to MaxLate after it, and the
\* earliest instant a running snapshot can finish.
ClockStops ==
    {d * MsPerDay + o : d \in StartDay..(StartDay + MaxSnapDays + 1), o \in DayMarks}
    \cup {timer.at + l : timer \in dailyTimers, l \in 0..MaxLate}
    \cup {at + l : at \in startupTimers, l \in 0..MaxLate}
    \cup {inv.startedAt + MinSnapshotMs : inv \in snapshots}

\* A timer fires no later than MaxLate after its deadline: the clock does
\* not pass that instant while the timer is armed.
ClockLimit ==
    {timer.at + MaxLate : timer \in dailyTimers}
    \cup {at + MaxLate : at \in startupTimers}
    \cup {(StartDay + MaxSnapDays + 1) * MsPerDay}

\* The clock advances to its next stop.
SnapTick ==
    /\ booted
    /\ \E t \in ClockStops :
        /\ t > now
        /\ \A u \in ClockStops : u > now => t <= u
        /\ \A lim \in ClockLimit : t <= lim
        /\ now' = t
    /\ UNCHANGED <<snapVars, rateVars, cacheVars, emailVars, upVars>>

\* The trend after n daily snapshots, each finished at the time of day of
\* t, the last one at t: one entry for each of the n dates up to today's.
TrendAfter(n, t) ==
    [i \in 1..n |-> [date |-> formatDateKey(t) - (n - i),
                     total |-> 1,
                     timestamp |-> t - (n - i) * MsPerDay]]

\* A process that has just been started.
InitFresh ==
    /\ now \in {T0 + o : o \in StartOffsets}
    /\ booted = FALSE
    /\ dailyHoldingsTrend = <<>>
    /\ exchangeHoldingsCache = [data |-> Null, timestamp |-> Null]
    /\ dailyTimers = {}
    /\ startupTimers = {}
    /\ lastDone = <<>>
    /\ lastFiring = <<>>

\* A process that has been up for TREND_LIMIT - 1 or TREND_LIMIT days: its
\* daily timer has fired every day, and the snapshot of the last firing has
\* just finished (five minutes past midnight UTC) and armed the next timer.
InitLongRunning ==
    /\ now = T0 + 5 * MsPerMinute
    /\ booted = TRUE
    /\ exchangeHoldingsCache = [data |-> 1, timestamp |-> now]
    /\ dailyTimers = {scheduleDailySnapshot(now)}
    /\ startupTimers = {}
    /\ \E n \in {TREND_LIMIT - 1, TREND_LIMIT} :
        /\ dailyHoldingsTrend = TrendAfter(n, now)
        /\ lastFiring = <<[deadline |-> TargetToday(now - MsPerDay),
                          firedAt |-> TargetToday(now - MsPerDay)]>>
        /\ lastDone = <<Done("timer", NewEntry(1, now), TrendAfter(n - 1, now - MsPerDay),
                             TrendAfter(n, now), {})>>

InitSnap ==
    /\ tzOffset = LosAngelesOffset
    /\ snapshots = {}
    /\ manualCount = 0
    /\ InitFresh \/ InitLongRunning

\* The snapshot state of a specification that takes no snapshots.
InitSnapIdle ==
    /\ tzOffset = LosAngelesOffset
    /\ booted = TRUE
    /\ dailyHoldingsTrend = <<>>
    /\ exchangeHoldingsCache = [data |-> Null, timestamp |-> Null]
    /\ dailyTimers = {}
    /\ startupTimers = {}
    /\ snapshots = {}
    /\ lastDone = <<>>
    /\ lastFiring = <<>>
    /\ manualCount = 0

\* The instants the clock stops at when only the scheduler runs: every
\* day's target, the instant before it and a mark in the morning; the
\* deadline of each armed timer and the instants up to MaxSchedLate after
\* it; the earliest instant a running snapshot can finish.  A snapshot may
\* finish at any later stop: fetchXRPLBalance sets no timeout.
SchedStops ==
    {d * MsPerDay + o : d \in StartDay..(StartDay + MaxSchedDays),
                        o \in DayMarks \cup {TargetToday(0) - 1, TargetToday(0)}}
    \cup {timer.at + l : timer \in dailyTimers, l \in 0..MaxSchedLate}
    \cup {at : at \in startupTimers}
    \cup {inv.startedAt + MinSnapshotMs : inv \in snapshots}

SchedLimit ==
    {timer.at + MaxSchedLate : timer \in dailyTimers}
    \cup startupTimers
    \cup {(StartDay + MaxSchedDays + 1) * MsPerDay}

SchedTick ==
    /\ booted
    /\ \E t \in SchedStops :
        /\ t > now
        /\ \A u \in SchedStops : u > now => t <= u
        /\ \A lim \in SchedLimit : t <= lim
        /\ now' = t
    /\ UNCHANGED <<snapVars, rateVars, cacheVars, emailVars, upVars>>

NextSched ==
    \/ Listen
    \/ StartupTimerFire
    \/ DailyTimerFire
    \/ SnapshotDone
    \/ SchedTick

NextSnap ==
    \/ Listen
    \/ StartupTimerFire
    \/ DailyTimerFire
    \/ PostSnapshot
    \/ SnapshotDone
    \/ SnapTick

\* ------------------------------------------------------------------------
\* Caches (server.js 59-87, 201-213, 1606-1607, 1877-1878)
\* ------------------------------------------------------------------------
\* What an upstream fetch yields: a payload, or Null when it fails (network
\* error, non-2xx status or a payload the code rejects).
Payloads == {1, 2}
Outcomes == Payloads \cup {Null}
\* A truthy value that holds no upstream data: the {} fetchAllETFData
\* returns when every symbol failed, the neutral fallback of
\* calculateSentiment, the all-zero totals of fetchAllExchangeHoldings.
Hollow == 3
\* A payload that is valid JSON of another shape than the handler reads: a
\* field that is not the array or the string the handler calls a method of.
Malformed == 4

CoinGeckoKeys == {"xrp_community", "xrp_chart_7", "xrp_coin", "xrp_all"}
Slots == {"etf", "insights", "insightsWithAi", "sentiment", "holdings", "richlist",
          "escrow", "network"} \cup CoinGeckoKeys

\* The endpoints that share state are requested together: the on-chain
\* handlers share lastUpdate, the CoinGecko handlers share coingeckoCache.
Group(ep) ==
    CASE ep \in {"escrow", "network"} -> "onchain"
      [] ep \in {"topic", "timeseries", "coin", "all", "clear-cache"} -> "coingecko"
      [] OTHER -> ep
Groups == {"etf", "sentiment", "holdings", "richlist", "insights", "insightsWithAi",
           "insightsAdditions", "chat", "onchain", "coingecko"}

\* A store that leaves a filled slot alone: the first writer wins.
KeepStored(old, new) == IF old.data # Null THEN old ELSE new

\* cache = { data, timestamp }: the slot after the assignment
Overwrite(old, new) == new

\* A store that keeps the value and forgets when it was fetched.
EntryUndated(data, timestamp) == [data |-> data, timestamp |-> Null]

\* { data, timestamp }
Entry(data, timestamp) == [data |-> data, timestamp |-> timestamp]

\* The requests of a run whatever its clock advances: one more when the
\* run is about /api/etf-data, which is one endpoint with one slot, or
\* about the on-chain endpoints, which are two with one timestamp.
GroupRequests ==
    CASE focus = "etf" -> MaxEtfRequests
      [] focus = "onchain" -> MaxOnChainRequests
      [] OTHER -> MaxRequests

\* The requests and clock advances a run may take together: one more in
\* the runs that take one more request.
EventLimit == IF focus \in {"etf", "onchain"} THEN MaxCacheEvents + 1 ELSE MaxCacheEvents

\* The requests of a run: no more than the clock advances taken leave of
\* the run's events.
RequestLimit ==
    IF EventLimit - cacheTicks < GroupRequests
        THEN EventLimit - cacheTicks
        ELSE GroupRequests

\* The value a slot holds
SlotData(slot) ==
    CASE slot = "etf" -> etfDataCache.data
      [] slot = "insights" -> insightCache.data
      [] slot = "insightsWithAi" -> insightCacheWithAi.data
      [] slot = "sentiment" -> sentimentCache.data
      [] slot = "holdings" -> exchangeHoldingsCache.data
      [] slot = "richlist" -> richListCache.data
      [] slot = "escrow" -> onChainCache.escrow
      [] slot = "network" -> onChainCache.network
      [] OTHER -> coingeckoCache[slot].data

\* The step leaves the slot as it was: what it holds and the timestamp it
\* holds it under.
SlotKept(slot) ==
    CASE slot = None -> TRUE
      [] slot = "etf" -> etfDataCache' = etfDataCache
      [] slot = "insights" -> insightCache' = insightCache
      [] slot = "insightsWithAi" -> insightCacheWithAi' = insightCacheWithAi
      [] slot = "sentiment" -> sentimentCache' = sentimentCache
      [] slot = "holdings" -> exchangeHoldingsCache' = exchangeHoldingsCache
      [] slot = "richlist" -> richListCache' = richListCache
      [] slot = "escrow" -> /\ onChainCache'.escrow = onChainCache.escrow
                            /\ onChainCache'.lastUpdate = onChainCache.lastUpdate
      [] slot = "network" -> /\ onChainCache'.network = onChainCache.network
                             /\ onChainCache'.lastUpdate = onChainCache.lastUpdate
      [] OTHER -> coingeckoCache'[slot] = coingeckoCache[slot]

\* The duration a slot's entry counts as fresh, in clock units
SlotTTL(slot) ==
    CASE slot = "etf" -> Units(ETF_CACHE_DURATION)
      [] slot = "insights" -> Units(AI_CACHE_DURATION)
      [] slot = "insightsWithAi" -> Units(CACHE_DURATION)
      [] slot = "sentiment" -> Units(SENTIMENT_CACHE_DURATION)
      [] slot = "holdings" -> Units(EXCHANGE_CACHE_DURATION)
      [] slot = "richlist" -> Units(RICHLIST_CACHE_DURATION)
      [] slot \in {"escrow", "network"} -> Units(ONCHAIN_CACHE_DURATION)
      [] OTHER -> Units(COINGECKO_CACHE_DURATION)

\* A check that serves a fresh entry to a forced refresh too.
CacheHitIgnoringForce(forceRefresh, entry, t, ttl) ==
    entry.data # Null /\ t - entry.timestamp < ttl

\* if (!forceRefresh && cache.data && now - cache.timestamp < DURATION)
CacheHit(forceRefresh, entry, t, ttl) ==
    ~forceRefresh /\ entry.data # Null /\ t - entry.timestamp < ttl

\* getCoinGeckoCached: the value returned (Null for null)
getCoinGeckoCached(cache, key, forceRefresh, t) ==
    IF forceRefresh
        THEN Null
        ELSE IF cache[key].data # Null
                    /\ t - cache[key].timestamp < Units(COINGECKO_CACHE_DURATION)
                THEN cache[key].data
                ELSE Null

\* A lookup that deletes the key whether the refresh is forced or not.
DeleteAlways(cache, key, forceRefresh) == [cache EXCEPT ![key] = Entry(Null, Null)]

\* getCoinGeckoCached: the cache it leaves (delete coingeckoCache[key])
DeleteIfForced(cache, key, forceRefresh) ==
    IF forceRefresh THEN [cache EXCEPT ![key] = Entry(Null, Null)] ELSE cache

\* setCoinGeckoCache
setCoinGeckoCache(cache, key, data, t) == [cache EXCEPT ![key] = Entry(data, t)]

\* clearCoinGeckoCache: coingeckoCache = {}
clearCoinGeckoCache == [k \in CoinGeckoKeys |-> Entry(Null, Null)]

\* A request arrives now, less than the slot's duration after the slot's
\* last successful fetch was stored.
FreshAt(slot, t) == lastFetch[slot] # Null /\ t - lastFetch[slot] < SlotTTL(slot)

\* A request as it waits for its upstream fetch: the endpoint, the slot it
\* reads, its forceRefresh flag, its client, its arrival time, whether it
\* arrived inside the duration of the slot's last successful fetch, and
\* whether another request for the slot is waiting for its fetch, and the
\* value the slot held when it arrived and the value it holds when the
\* handler reaches its await, and whether its body lacks the field the
\* endpoint's prompt is built from (marketData, message).
Request(ep, slot, force, ip) ==
    [ep |-> ep, slot |-> slot, force |-> force, ip |-> ip, at |-> now,
     fresh |-> FreshAt(slot, now),
     racing |-> \E o \in inflight : o.slot = slot,
     heldBefore |-> SlotData(slot), heldAfter |-> SlotData(slot)',
     lacks |-> FALSE, marketData |-> Null]

\* A response: the request, the HTTP status, the cached and stale flags of
\* the body, whether the body reports an error, whether an upstream fetch
\* was made for it and whether that failed, the value sent, the value the
\* slot held when the fetch returned, whether a fetch for the slot had
\* succeeded before, the value the slot held when the request arrived, the
\* value it held when the handler reached its await or returned before it,
\* whether another request for the slot was waiting when this one arrived,
\* whether the turn the response is sent in leaves the slot as it was,
\* the retryAfter field of the body (Null when the body has none), the
\* instant the response is sent, whether no other request for the slot is
\* waiting for its fetch at that instant, and why the request was turned
\* away.
Response(r, status, cached, stale, error, upstream, failed, data, held, rejected) ==
    [ep |-> r.ep, slot |-> r.slot, force |-> r.force, at |-> r.at, fresh |-> r.fresh,
     status |-> status, cached |-> cached, stale |-> stale, error |-> error,
     upstream |-> upstream, failed |-> failed, data |-> data, held |-> held,
     fetchedBefore |-> r.slot # None /\ lastFetch[r.slot] # Null,
     heldBefore |-> r.heldBefore, heldAfter |-> r.heldAfter, doneAt |-> now,
     retryAfter |-> Null, racing |-> r.racing,
     slotKept |-> SlotKept(r.slot),
     alone |-> \A o \in inflight : o.slot = r.slot => o = r,
     lacks |-> r.lacks, marketData |-> Null,
     rejected |-> rejected]

\* No response has been sent yet.
NoResponse ==
    [ep |-> None, slot |-> None, force |-> FALSE, at |-> Null, fresh |-> FALSE,
     status |-> Null, cached |-> FALSE, stale |-> FALSE, error |-> TRUE,
     upstream |-> FALSE, failed |-> FALSE, data |-> Null, held |-> Null,
     fetchedBefore |-> FALSE,
     heldBefore |-> Null, heldAfter |-> Null, doneAt |-> Null,
     retryAfter |-> Null, racing |-> FALSE,
     slotKept |-> TRUE,
     alone |-> TRUE,
     lacks |-> FALSE, marketData |-> Null,
     rejected |-> None]

\* Served from the cache; the marketData of the request is kept with it
Hit(r, data) ==
    [Response(r, 200, TRUE, FALSE, FALSE, FALSE, FALSE, data, data, None)
        EXCEPT !.marketData = r.marketData]
\* Served with the value just fetched
Fetched(r, data) == Response(r, 200, FALSE, FALSE, FALSE, TRUE, FALSE, data, r.heldAfter, None)
\* Served with the stored value after the fetch failed
Stale(r, data) == Response(r, 200, TRUE, TRUE, FALSE, TRUE, TRUE, data, data, None)
\* The fetch failed and the handler answered with this status and value
Failed(r, status, error, data, held) ==
    Response(r, status, FALSE, FALSE, error, TRUE, TRUE, data, held, None)
\* Turned away before the cache was looked at
Rejected(r, status, reason) ==
    Response(r, status, FALSE, FALSE, TRUE, FALSE, FALSE, Null, Null, reason)

\* Turned away by the rate limiter, with this retryAfter in the body
RateRejected(r, retryAfter) ==
    [Rejected(r, 429, "rate") EXCEPT !.retryAfter = retryAfter]

\* A handler up to its await: answer from the cache on a hit, else wait
\* for the upstream fetch.
Arrive(r, hit, data) ==
    /\ focus = Group(r.ep)
    /\ requestCount < RequestLimit
    /\ requestCount' = requestCount + 1
    /\ r \notin inflight
    /\ IF hit
        THEN lastResponse' = Hit(r, data) /\ inflight' = inflight
        ELSE inflight' = inflight \cup {r} /\ lastResponse' = lastResponse

\* The first response sent after an upstream fetch, as far as the
\* properties ask: its slot, the data sent, when it was sent, whether no
\* other request for the slot was waiting then, and what the slot held when
\* its request arrived.
FirstFetch(response) ==
    IF firstFetched = <<>>
        THEN <<[slot |-> response.slot, data |-> response.data, doneAt |-> response.doneAt,
                alone |-> response.alone, heldBefore |-> response.heldBefore]>>
        ELSE firstFetched

\* The slot's last successful fetch, after a fetch with this outcome
Stored(slot, out) == IF out # Null THEN [lastFetch EXCEPT ![slot] = now] ELSE lastFetch

\* The snapshot state but exchangeHoldingsCache
snapRest == <<tzOffset, booted, dailyHoldingsTrend, dailyTimers, startupTimers,
              snapshots, lastDone, lastFiring, manualCount>>

\* GET /api/etf-data up to its await (the endpoint has no refresh parameter)
GetEtfData ==
    /\ UNCHANGED <<now, anthropic, etfDataCache, insightCache, insightCacheWithAi,
                   sentimentCache, richListCache, coingeckoCache, onChainCache,
                   lastFetch, firstFetched, cacheTicks, focus, uncaught, generatedFrom, rateVars, snapVars,
                   emailVars, upVars>>
    /\ Arrive(Request("etf", "etf", FALSE, None),
              CacheHit(FALSE, etfDataCache, now, Units(ETF_CACHE_DURATION))
                /\ etfDataCache.timestamp # Null,
              etfDataCache.data)

\* GET /api/etf-data after its await.  fetchAllETFData catches the failure
\* of every symbol and returns what is left, {} when all failed; the
\* handler stores and sends whatever it returns.
GetEtfDataDone ==
    \E r \in inflight : \E out \in Outcomes :
        /\ r.ep = "etf"
        /\ inflight' = inflight \ {r}
        /\ etfDataCache' = Overwrite(etfDataCache,
                                      Entry(IF out = Null THEN Hollow ELSE out, now))
        /\ lastResponse' = IF out = Null
                             THEN Failed(r, 200, FALSE, Hollow, etfDataCache.data)
                             ELSE Fetched(r, out)
        /\ lastFetch' = Stored("etf", out)
        /\ firstFetched' = FirstFetch(lastResponse')
        /\ UNCHANGED <<now, anthropic, insightCache, insightCacheWithAi, sentimentCache,
                       richListCache, coingeckoCache, onChainCache, requestCount,
                       cacheTicks, focus, uncaught, generatedFrom, rateVars, snapVars, emailVars, upVars>>

\* GET /api/sentiment up to its await
GetSentiment ==
    \E force \in BOOLEAN :
        /\ UNCHANGED <<now, anthropic, etfDataCache, insightCache, insightCacheWithAi,
                       sentimentCache, richListCache, coingeckoCache, onChainCache,
                       lastFetch, firstFetched, cacheTicks, focus, uncaught, generatedFrom, rateVars, snapVars,
                       emailVars, upVars>>
        /\ Arrive(Request("sentiment", "sentiment", force, None),
                  CacheHit(force, sentimentCache, now, Units(SENTIMENT_CACHE_DURATION)),
                  sentimentCache.data)

\* GET /api/sentiment after its await.  calculateSentiment catches every
\* failure and returns a neutral fallback, which is stored and sent.
GetSentimentDone ==
    \E r \in inflight : \E out \in Outcomes :
        /\ r.ep = "sentiment"
        /\ inflight' = inflight \ {r}
        /\ sentimentCache' = Entry(IF out = Null THEN Hollow ELSE out, now)
        /\ lastResponse' = IF out = Null
                             THEN Failed(r, 200, FALSE, Hollow, sentimentCache.data)
                             ELSE Fetched(r, out)
        /\ lastFetch' = Stored("sentiment", out)
        /\ firstFetched' = FirstFetch(lastResponse')
        /\ UNCHANGED <<now, anthropic, etfDataCache, insightCache, insightCacheWithAi,
                       richListCache, coingeckoCache, onChainCache, requestCount,
                       cacheTicks, focus, uncaught, generatedFrom, rateVars, snapVars, emailVars, upVars>>

\* GET /api/exchange/holdings up to its await
GetExchangeHoldings ==
    \E force \in BOOLEAN :
        /\ UNCHANGED <<now, anthropic, etfDataCache, insightCache, insightCacheWithAi,
                       sentimentCache, richListCache, coingeckoCache, onChainCache,
                       lastFetch, firstFetched, cacheTicks, focus, uncaught, generatedFrom, rateVars, snapVars,
                       emailVars, upVars>>
        /\ Arrive(Request("holdings", "holdings", force, None),
                  CacheHit(force, exchangeHoldingsCache, now, Units(EXCHANGE_CACHE_DURATION)),
                  exchangeHoldingsCache.data)

\* GET /api/exchange/holdings after its await.  fetchAllExchangeHoldings
\* counts a wallet that failed as nothing, so when every node fails it
\* returns all-zero totals, which are stored and sent.
GetExchangeHoldingsDone ==
    \E r \in inflight : \E out \in Outcomes :
        /\ r.ep = "holdings"
        /\ now >= r.at + MinSnapshotMs
        /\ inflight' = inflight \ {r}
        /\ exchangeHoldingsCache' = Overwrite(exchangeHoldingsCache,
                                               Entry(IF out = Null THEN Hollow ELSE out, now))
        /\ lastResponse' = IF out = Null
                             THEN Failed(r, 200, FALSE, Hollow, exchangeHoldingsCache.data)
                             ELSE Fetched(r, out)
        /\ lastFetch' = Stored("holdings", out)
        /\ firstFetched' = FirstFetch(lastResponse')
        /\ UNCHANGED <<now, anthropic, etfDataCache, insightCache, insightCacheWithAi,
                       sentimentCache, richListCache, coingeckoCache, onChainCache,
                       requestCount, cacheTicks, focus, uncaught, generatedFrom, rateVars, snapRest, emailVars, upVars>>

\* GET /api/richlist up to its await
GetRichList ==
    \E force \in BOOLEAN :
        /\ UNCHANGED <<now, anthropic, etfDataCache, insightCache, insightCacheWithAi,
                       sentimentCache, richListCache, coingeckoCache, onChainCache,
                       lastFetch, firstFetched, cacheTicks, focus, uncaught, generatedFrom, rateVars, snapVars,
                       emailVars, upVars>>
        /\ Arrive(Request("richlist", "richlist", force, None),
                  CacheHit(force, richListCache, now, Units(RICHLIST_CACHE_DURATION)),
                  richListCache.data)

\* GET /api/richlist after its await: store and send the list, or in the
\* catch send the stored list as stale, or 503 when there is none.
GetRichListDone ==
    \E r \in inflight : \E out \in Outcomes :
        /\ r.ep = "richlist"
        /\ inflight' = inflight \ {r}
        /\ richListCache' = IF out = Null THEN richListCache ELSE Entry(out, now)
        /\ lastResponse' = IF out # Null
                             THEN Fetched(r, out)
                             ELSE IF richListCache.data # Null
                                    THEN Stale(r, richListCache.data)
                                    ELSE Failed(r, 503, TRUE, Null, Null)
        /\ lastFetch' = Stored("richlist", out)
        /\ firstFetched' = FirstFetch(lastResponse')
        /\ UNCHANGED <<now, anthropic, etfDataCache, insightCache, insightCacheWithAi,
                       sentimentCache, coingeckoCache, onChainCache, requestCount,
                       cacheTicks, focus, uncaught, generatedFrom, rateVars, snapVars, emailVars, upVars>>

\* A field the request body does not have, a variable the environment does
\* not set: undefined.
Undefined == "undefined"
\* The market data a request for insights carries
MarketData == {"m1", "m2"}

\* POST /api/ai-insights of server.js up to its await: 503 without an API
\* key, 429 when the limiter refuses, else the cache check; a body without
\* marketData is itself taken as the market data.
PostAiInsights ==
    \E ip \in Clients : \E force \in BOOLEAN : \E marketData \in MarketData \cup {Undefined} :
        LET r == [Request("insights", "insights", force, ip)
                    EXCEPT !.lacks = (marketData = Undefined), !.marketData = marketData] IN
        /\ UNCHANGED <<now, anthropic, etfDataCache, insightCache, insightCacheWithAi,
                       sentimentCache, richListCache, coingeckoCache, onChainCache,
                       lastFetch, firstFetched, cacheTicks, focus, uncaught, generatedFrom, rateTicks, otherCalls, snapVars,
                       emailVars, upVars>>
        /\ focus = Group("insights")
        /\ requestCount < RequestLimit
        /\ requestCount' = requestCount + 1
        /\ r \notin inflight
        /\ IF ~anthropic
            THEN /\ lastResponse' = Rejected(r, 503, "config")
                 /\ UNCHANGED <<inflight, rateLimitMap, acceptedLog, lastCall>>
            ELSE /\ isRateLimited(ip)
                 /\ IF RateLimited(rateLimitMap[ip], now)
                     THEN lastResponse' = RateRejected(r, Null) /\ inflight' = inflight
                     ELSE IF CacheHit(force, insightCache, now, Units(AI_CACHE_DURATION))
                            THEN lastResponse' = Hit(r, insightCache.data)
                                    /\ inflight' = inflight
                            ELSE inflight' = inflight \cup {r}
                                    /\ lastResponse' = lastResponse

\* POST /api/ai-insights of server.js after its await: the result is stored
\* under the time the request arrived at; a failure is answered 500
\* whatever the cache holds.
PostAiInsightsDone ==
    \E r \in inflight : \E out \in Outcomes :
        /\ r.ep = "insights"
        /\ inflight' = inflight \ {r}
        /\ insightCache' = IF out = Null THEN insightCache ELSE Entry(out, r.at)
        /\ lastResponse' = IF out = Null
                             THEN Failed(r, 500, TRUE, Null, insightCache.data)
                             ELSE Fetched(r, out)
        /\ lastFetch' = Stored("insights", out)
        /\ firstFetched' = FirstFetch(lastResponse')
        /\ generatedFrom' = IF out = Null
                              THEN generatedFrom
                              ELSE [generatedFrom EXCEPT !["insights"] = r.marketData]
        /\ UNCHANGED <<now, anthropic, etfDataCache, insightCacheWithAi, sentimentCache,
                       richListCache, coingeckoCache, onChainCache, requestCount,
                       cacheTicks, focus, uncaught, rateVars, snapVars, emailVars, upVars>>

\* POST /api/ai-insights of server-with-ai.js up to its await: 429 when the
\* limiter refuses, 400 without marketData, else the cache check
PostAiInsightsWithAi ==
    \E ip \in Clients : \E force \in BOOLEAN : \E marketData \in MarketData \cup {Undefined} :
        LET r == [Request("insightsWithAi", "insightsWithAi", force, ip)
                    EXCEPT !.lacks = (marketData = Undefined), !.marketData = marketData] IN
        /\ UNCHANGED <<now, anthropic, etfDataCache, insightCache, insightCacheWithAi,
                       sentimentCache, richListCache, coingeckoCache, onChainCache,
                       lastFetch, firstFetched, cacheTicks, focus, uncaught, generatedFrom, rateTicks, otherCalls, snapVars,
                       emailVars, upVars>>
        /\ focus = Group("insightsWithAi")
        /\ requestCount < RequestLimit
        /\ requestCount' = requestCount + 1
        /\ r \notin inflight
        /\ isRateLimited(ip)
        /\ IF RateLimited(rateLimitMap[ip], now)
            THEN lastResponse' = RateRejected(r, RETRY_AFTER) /\ inflight' = inflight
            ELSE IF marketData = Undefined
                   THEN lastResponse' = Rejected(r, 400, "validation") /\ inflight' = inflight
                   ELSE IF CacheHit(force, insightCacheWithAi, now, Units(CACHE_DURATION))
                          THEN lastResponse' = Hit(r, insightCacheWithAi.data)
                                  /\ inflight' = inflight
                          ELSE inflight' = inflight \cup {r}
                                  /\ lastResponse' = lastResponse

\* POST /api/ai-insights of server-with-ai.js after its await: store and
\* send the analysis, or in the catch send the stored one as stale, or 500
\* when there is none.  (The client is built whether or not a key is set;
\* without a key its call fails.)
PostAiInsightsWithAiDone ==
    \E r \in inflight : \E out \in Outcomes :
        /\ r.ep = "insightsWithAi"
        /\ anthropic \/ out = Null
        /\ inflight' = inflight \ {r}
        /\ insightCacheWithAi' = IF out = Null THEN insightCacheWithAi ELSE Entry(out, now)
        /\ lastResponse' = IF out # Null
                             THEN Fetched(r, out)
                             ELSE IF insightCacheWithAi.data # Null
                                    THEN Stale(r, insightCacheWithAi.data)
                                    ELSE Failed(r, 500, TRUE, Null, Null)
        /\ lastFetch' = Stored("insightsWithAi", out)
        /\ firstFetched' = FirstFetch(lastResponse')
        /\ generatedFrom' = IF out = Null
                              THEN generatedFrom
                              ELSE [generatedFrom EXCEPT !["insightsWithAi"] = r.marketData]
        /\ UNCHANGED <<now, anthropic, etfDataCache, insightCache, sentimentCache,
                       richListCache, coingeckoCache, onChainCache, requestCount,
                       cacheTicks, focus, uncaught, rateVars, snapVars, emailVars, upVars>>

\* POST /api/chat of server.js up to its await: 503 without a client, 429
\* from the limiter it shares with /api/ai-insights, 400 without a message.
PostChat ==
    \E ip \in Clients : \E message \in BOOLEAN :
        LET r == [ep |-> "chat", slot |-> None, force |-> FALSE, ip |-> ip,
                  at |-> now, fresh |-> FALSE, racing |-> FALSE,
                  heldBefore |-> Null, heldAfter |-> Null, lacks |-> ~message,
                  marketData |-> Null] IN
        /\ UNCHANGED <<now, anthropic, etfDataCache, insightCache, insightCacheWithAi,
                       sentimentCache, richListCache, coingeckoCache, onChainCache,
                       lastFetch, firstFetched, cacheTicks, focus, uncaught, generatedFrom, rateTicks, otherCalls, snapVars,
                       emailVars, upVars>>
        /\ focus = Group("chat")
        /\ requestCount < RequestLimit
        /\ requestCount' = requestCount + 1
        /\ r \notin inflight
        /\ IF ~anthropic
            THEN /\ lastResponse' = Rejected(r, 503, "config")
                 /\ UNCHANGED <<inflight, rateLimitMap, acceptedLog, lastCall>>
            ELSE /\ isRateLimited(ip)
                 /\ IF RateLimited(rateLimitMap[ip], now)
                     THEN lastResponse' = RateRejected(r, Null) /\ inflight' = inflight
                     ELSE IF ~message
                            THEN lastResponse' = Rejected(r, 400, "validation")
                                    /\ inflight' = inflight
                            ELSE inflight' = inflight \cup {r}
                                    /\ lastResponse' = lastResponse

\* POST /api/chat after its await: the reply, or 500 in the catch.
PostChatDone ==
    \E r \in inflight : \E out \in Outcomes :
        /\ r.ep = "chat"
        /\ inflight' = inflight \ {r}
        /\ lastResponse' = IF out # Null
                             THEN Fetched(r, out)
                             ELSE Failed(r, 500, TRUE, Null, Null)
        /\ firstFetched' = FirstFetch(lastResponse')
        /\ UNCHANGED <<now, anthropic, etfDataCache, insightCache, insightCacheWithAi,
                       sentimentCache, richListCache, coingeckoCache, onChainCache,
                       lastFetch, requestCount, cacheTicks, focus, uncaught, generatedFrom, rateVars, snapVars,
                       emailVars, upVars>>

\* POST /api/ai-insights of complete-backend-additions.js up to its await:
\* no limiter and no cache; without a key the answer is a 200 whose body
\* reports the error.
PostAiInsightsAdditions ==
    LET r == [ep |-> "insightsAdditions", slot |-> None, force |-> FALSE, ip |-> None,
              at |-> now, fresh |-> FALSE, racing |-> FALSE,
                  heldBefore |-> Null, heldAfter |-> Null, lacks |-> FALSE,
                  marketData |-> Null] IN
    /\ focus = Group("insightsAdditions")
    /\ requestCount < RequestLimit
    /\ requestCount' = requestCount + 1
    /\ r \notin inflight
    /\ IF ~anthropic
        THEN lastResponse' = Rejected(r, 200, "config") /\ inflight' = inflight
        ELSE inflight' = inflight \cup {r} /\ lastResponse' = lastResponse
    /\ UNCHANGED <<now, anthropic, etfDataCache, insightCache, insightCacheWithAi,
                   sentimentCache, richListCache, coingeckoCache, onChainCache,
                   lastFetch, firstFetched, cacheTicks, focus, uncaught, generatedFrom, rateVars, snapVars,
                   emailVars, upVars>>

\* ... after its await: the analysis with cached: false, or in the catch a
\* 200 whose body reports the error.
PostAiInsightsAdditionsDone ==
    \E r \in inflight : \E out \in Outcomes :
        /\ r.ep = "insightsAdditions"
        /\ inflight' = inflight \ {r}
        /\ lastResponse' = IF out # Null
                             THEN Fetched(r, out)
                             ELSE Failed(r, 200, TRUE, Null, Null)
        /\ firstFetched' = FirstFetch(lastResponse')
        /\ UNCHANGED <<now, anthropic, etfDataCache, insightCache, insightCacheWithAi,
                       sentimentCache, richListCache, coingeckoCache, onChainCache,
                       lastFetch, requestCount, cacheTicks, focus, uncaught, generatedFrom, rateVars, snapVars,
                       emailVars, upVars>>

\* The check of both on-chain handlers: the value is there, lastUpdate is
\* set and less than ONCHAIN_CACHE_DURATION old
OnChainHit(value, t) ==
    /\ value # Null
    /\ onChainCache.lastUpdate # Null
    /\ t - onChainCache.lastUpdate < Units(ONCHAIN_CACHE_DURATION)

\* GET /api/onchain/escrow up to its await
GetOnChainEscrow ==
    /\ UNCHANGED <<now, anthropic, etfDataCache, insightCache, insightCacheWithAi,
                   sentimentCache, richListCache, coingeckoCache, onChainCache,
                   lastFetch, firstFetched, cacheTicks, focus, uncaught, generatedFrom, rateVars, snapVars,
                   emailVars, upVars>>
    /\ Arrive(Request("escrow", "escrow", FALSE, None),
              OnChainHit(onChainCache.escrow, now), onChainCache.escrow)

\* GET /api/onchain/escrow after its await: store the escrow data and
\* lastUpdate; a failure is answered with status 200 and success: false.
GetOnChainEscrowDone ==
    \E r \in inflight : \E out \in Outcomes :
        /\ r.ep = "escrow"
        /\ inflight' = inflight \ {r}
        /\ onChainCache' = IF out = Null
                             THEN onChainCache
                             ELSE [onChainCache EXCEPT !.escrow = out, !.lastUpdate = now]
        /\ lastResponse' = IF out = Null
                             THEN Failed(r, 200, TRUE, Null, onChainCache.escrow)
                             ELSE Fetched(r, out)
        /\ lastFetch' = Stored("escrow", out)
        /\ firstFetched' = FirstFetch(lastResponse')
        /\ UNCHANGED <<now, anthropic, etfDataCache, insightCache, insightCacheWithAi,
                       sentimentCache, richListCache, coingeckoCache, requestCount,
                       cacheTicks, focus, uncaught, generatedFrom, rateVars, snapVars, emailVars, upVars>>

\* GET /api/onchain/network up to its await
GetOnChainNetwork ==
    /\ UNCHANGED <<now, anthropic, etfDataCache, insightCache, insightCacheWithAi,
                   sentimentCache, richListCache, coingeckoCache, onChainCache,
                   lastFetch, firstFetched, cacheTicks, focus, uncaught, generatedFrom, rateVars, snapVars,
                   emailVars, upVars>>
    /\ Arrive(Request("network", "network", FALSE, None),
              OnChainHit(onChainCache.network, now), onChainCache.network)

\* GET /api/onchain/network after its await: store the network stats,
\* and nothing else: lastUpdate is left as it is.
GetOnChainNetworkDone ==
    \E r \in inflight : \E out \in Outcomes :
        /\ r.ep = "network"
        /\ inflight' = inflight \ {r}
        /\ onChainCache' = IF out = Null
                             THEN onChainCache
                             ELSE [onChainCache EXCEPT !.network = out]
        /\ lastResponse' = IF out = Null
                             THEN Failed(r, 200, TRUE, Null, onChainCache.network)
                             ELSE Fetched(r, out)
        /\ lastFetch' = Stored("network", out)
        /\ firstFetched' = FirstFetch(lastResponse')
        /\ UNCHANGED <<now, anthropic, etfDataCache, insightCache, insightCacheWithAi,
                       sentimentCache, richListCache, coingeckoCache, requestCount,
                       cacheTicks, focus, uncaught, generatedFrom, rateVars, snapVars, emailVars, upVars>>

\* A CoinGecko handler up to its await: with refresh=true, which only
\* /api/xrp/all reads, clear the whole cache first; then getCoinGeckoCached
GetXrp(ep, key, force) ==
    LET cleared == IF force THEN clearCoinGeckoCache ELSE coingeckoCache
        cached == getCoinGeckoCached(cleared, key, force, now)
    IN  /\ coingeckoCache' = DeleteIfForced(cleared, key, force)
        /\ Arrive(Request(ep, key, force, None), cached # Null, cached)
        /\ UNCHANGED <<now, anthropic, etfDataCache, insightCache, insightCacheWithAi,
                       sentimentCache, richListCache, onChainCache,
                       lastFetch, firstFetched, cacheTicks, focus, uncaught, generatedFrom, rateVars, snapVars,
                       emailVars, upVars>>

\* A CoinGecko handler after its await: coingeckoRequest returns null on
\* status 429, on any other non-2xx status, on a network error and on a
\* body that is not JSON, and the handler then answers with its error
\* status; else it builds its data from the payload and setCoinGeckoCache
\* stores them. The handlers have no try: where building the data calls a
\* method of a field (throws), a payload of another shape makes the
\* handler throw before it stores or answers anything; where it only
\* reads optional fields, the defaults are stored and served.
GetXrpDone(ep, key, errorStatus, throws) ==
    \E r \in inflight : \E out \in Outcomes \cup {Malformed} :
        LET data == IF out = Malformed THEN Hollow ELSE out
        IN  /\ r.ep = ep
            /\ inflight' = inflight \ {r}
            /\ IF out = Malformed /\ throws
                  THEN /\ uncaught' = uncaught \cup {r.ep}
                       /\ UNCHANGED <<coingeckoCache, lastResponse, lastFetch,
                                      firstFetched>>
                  ELSE /\ coingeckoCache' = IF data = Null
                                              THEN coingeckoCache
                                              ELSE setCoinGeckoCache(coingeckoCache, key,
                                                                     data, now)
                       /\ lastResponse' = IF data = Null
                                            THEN Failed(r, errorStatus, TRUE, Null,
                                                        coingeckoCache[key].data)
                                            ELSE Fetched(r, data)
                       /\ lastFetch' = Stored(key, data)
                       /\ firstFetched' = FirstFetch(lastResponse')
                       /\ UNCHANGED uncaught
            /\ UNCHANGED generatedFrom
            /\ UNCHANGED <<now, anthropic, etfDataCache, insightCache, insightCacheWithAi,
                           sentimentCache, richListCache, onChainCache, requestCount,
                           cacheTicks, focus, rateVars, snapVars, emailVars, upVars>>

\* GET /api/xrp/topic
GetXrpTopic == GetXrp("topic", "xrp_community", FALSE)
GetXrpTopicDone == GetXrpDone("topic", "xrp_community", 500, FALSE)
\* GET /api/xrp/timeseries (days = 7, the default)
GetXrpTimeseries == GetXrp("timeseries", "xrp_chart_7", FALSE)
GetXrpTimeseriesDone == GetXrpDone("timeseries", "xrp_chart_7", 500, TRUE)
\* GET /api/xrp/coin
GetXrpCoin == GetXrp("coin", "xrp_coin", FALSE)
GetXrpCoinDone == GetXrpDone("coin", "xrp_coin", 500, TRUE)
\* GET /api/xrp/all, with or without refresh=true
GetXrpAll == \E force \in BOOLEAN : GetXrp("all", "xrp_all", force)
GetXrpAllDone == GetXrpDone("all", "xrp_all", 503, TRUE)

\* GET /api/xrp/clear-cache
GetXrpClearCache ==
    /\ focus = Group("clear-cache")
    /\ requestCount < RequestLimit
    /\ requestCount' = requestCount + 1
    /\ coingeckoCache' = clearCoinGeckoCache
    /\ UNCHANGED <<now, anthropic, etfDataCache, insightCache, insightCacheWithAi,
                   sentimentCache, richListCache, onChainCache, inflight, lastResponse,
                   lastFetch, firstFetched, cacheTicks, focus, uncaught, generatedFrom, rateVars, snapVars,
                   emailVars, upVars>>

\* The clock advances of the cache specification: less than every cache
\* duration, and no less than any.
CacheSteps == {Units(ETF_CACHE_DURATION) \div 2, Units(EXCHANGE_CACHE_DURATION)}

CacheTick ==
    /\ cacheTicks < MaxCacheTicks
    /\ cacheTicks + requestCount < EventLimit
    /\ cacheTicks' = cacheTicks + 1
    /\ \E d \in CacheSteps : now' = now + d
    /\ UNCHANGED <<anthropic, etfDataCache, insightCache, insightCacheWithAi,
                   sentimentCache, richListCache, coingeckoCache, onChainCache, inflight,
                   lastResponse, lastFetch, firstFetched, requestCount, focus, uncaught, generatedFrom,
                   rateVars, snapVars, emailVars, upVars>>

\* The caches as the modules declare them, and no request made yet.
InitSlots ==
    /\ etfDataCache = Entry(Null, Null)
    /\ insightCache = Entry(Null, Null)
    /\ insightCacheWithAi = Entry(Null, Null)
    /\ sentimentCache = Entry(Null, Null)
    /\ richListCache = Entry(Null, Null)
    /\ coingeckoCache = clearCoinGeckoCache
    /\ onChainCache = [escrow |-> Null, network |-> Null, lastUpdate |-> Null]
    /\ inflight = {}
    /\ uncaught = {}
    /\ generatedFrom = [slot \in {"insights", "insightsWithAi"} |-> Null]
    /\ lastResponse = NoResponse
    /\ firstFetched = <<>>
    /\ lastFetch = [slot \in Slots |-> Null]
    /\ requestCount = 0
    /\ cacheTicks = 0

\* A run that requests one group of endpoints; the API key matters to
\* POST /api/ai-insights of server.js alone.
InitCache ==
    /\ focus \in Groups
    /\ anthropic \in (IF focus \in {"insights", "insightsWithAi", "insightsAdditions", "chat"}
                        THEN BOOLEAN ELSE {TRUE})
    /\ InitSlots

\* The cache state of a specification that requests no cached endpoint.
InitCacheIdle ==
    /\ focus = None
    /\ anthropic = TRUE
    /\ InitSlots

\* The limiter after client "b" has used up its quota at T0 with requests
\* to POST /api/chat.
InitRateBusy ==
    /\ rateLimitMap = [ip \in Clients |->
                        IF ip = "b" THEN [i \in 1..MAX_REQUESTS |-> T0] ELSE <<>>]
    /\ acceptedLog = rateLimitMap
    /\ lastCall = [ip |-> "b", at |-> T0, limited |-> FALSE, inWindow |-> MAX_REQUESTS - 1]
    /\ rateTicks = 0
    /\ otherCalls = 0

NextCache ==
    \/ GetEtfData \/ GetEtfDataDone
    \/ GetSentiment \/ GetSentimentDone
    \/ GetExchangeHoldings \/ GetExchangeHoldingsDone
    \/ GetRichList \/ GetRichListDone
    \/ PostAiInsights \/ PostAiInsightsDone
    \/ PostAiInsightsWithAi \/ PostAiInsightsWithAiDone
    \/ PostAiInsightsAdditions \/ PostAiInsightsAdditionsDone
    \/ PostChat \/ PostChatDone
    \/ GetOnChainEscrow \/ GetOnChainEscrowDone
    \/ GetOnChainNetwork \/ GetOnChainNetworkDone
    \/ GetXrpTopic \/ GetXrpTopicDone
    \/ GetXrpTimeseries \/ GetXrpTimeseriesDone
    \/ GetXrpCoin \/ GetXrpCoinDone
    \/ GetXrpAll \/ GetXrpAllDone
    \/ GetXrpClearCache
    \/ CacheTick

\* ------------------------------------------------------------------------
\* Email (server.js 36-50, 856-971, 1440-1454)
\* ------------------------------------------------------------------------
\* const SCHEDULE_HOURS_UTC = [16, 21, 0]
SCHEDULE_HOURS_UTC == {16, 21, 0}

\* The values a secret takes
Secrets == {"alpha", "beta"}

getUTCHours(t) == (t % MsPerDay) \div MsPerHour
getUTCMinutes(t) == (t % MsPerHour) \div MsPerMinute

\* A poll that starts the email at every minute of a trigger hour.
IsEmailTimeAnyMinute(t) == getUTCHours(t) \in SCHEDULE_HOURS_UTC

\* The interval's callback goes on to sendXPostEmail:
\* !(utcMinute > 1) && SCHEDULE_HOURS_UTC.includes(utcHour)
IsEmailTime(t) ==
    /\ ~(getUTCMinutes(t) > MINUTE_TOLERANCE)
    /\ getUTCHours(t) \in SCHEDULE_HOURS_UTC

\* A sendXPostEmail invocation, from its call to its return
EmailJob(src, secret) == [src |-> src, startedAt |-> now, secret |-> secret]

\* The interval fires: read the clock, and at an email time call
\* sendXPostEmail and wait for it.  The interval is due again
\* POLL_INTERVAL later.
PollTick ==
    \E due \in pollTimers :
        /\ now >= due
        /\ pollTimers' = (pollTimers \ {due}) \cup {due + Units(POLL_INTERVAL)}
        /\ lastPoll' = <<[at |-> now, started |-> IsEmailTime(now),
                          previous |-> IF lastPoll = <<>> THEN Null ELSE lastPoll[1].at]>>
        /\ IF IsEmailTime(now)
            THEN /\ EmailJob("scheduled", Undefined) \notin emailJobs
                 /\ emailJobs' = emailJobs \cup {EmailJob("scheduled", Undefined)}
                 /\ emailLog' = Append(emailLog, EmailJob("scheduled", Undefined))
            ELSE UNCHANGED <<emailJobs, emailLog>>
        /\ UNCHANGED <<now, emailEnabled, emailSecret, lastEmailResponse, pollCount,
                       emailPosts, xPostJobs, lastSummary, rateVars, snapVars,
                       cacheVars, upVars>>

\* The response of POST /api/send-email: the secret of the request, the
\* HTTP status, whether sendXPostEmail was run for it and what it returned.
EmailResponse(secret, status, ran, success) ==
    [secret |-> secret, status |-> status, ran |-> ran, success |-> success]

\* A check that only asks for some secret in the body.
UnauthorizedWhenAbsent(secret) == secret = Undefined

\* if (secret !== process.env.EMAIL_SECRET)
Unauthorized(secret) == secret # emailSecret

\* POST /api/send-email up to its await: 401 unless
\* secret === process.env.EMAIL_SECRET, else call sendXPostEmail.
PostSendEmail ==
    \E secret \in Secrets \cup {Undefined} :
        /\ booted
        /\ emailPosts < MaxEmailPosts
        /\ emailPosts' = emailPosts + 1
        /\ IF Unauthorized(secret)
            THEN /\ lastEmailResponse' = EmailResponse(secret, 401, FALSE, FALSE)
                 /\ UNCHANGED <<emailJobs, emailLog>>
            ELSE /\ EmailJob("manual", secret) \notin emailJobs
                 /\ emailJobs' = emailJobs \cup {EmailJob("manual", secret)}
                 /\ emailLog' = Append(emailLog, EmailJob("manual", secret))
                 /\ UNCHANGED lastEmailResponse
        /\ UNCHANGED <<now, emailEnabled, emailSecret, pollTimers, lastPoll, pollCount,
                       xPostJobs, lastSummary, rateVars, snapVars, cacheVars, upVars>>

\* What EXCHANGE_WALLETS maps every exchange to: an object
\* { address: label }, not an array of addresses.
EXCHANGE_WALLETS == [exchange \in {"binance", "uphold", "bitso"} |-> "object"]

\* for (const addr of addresses) goes through an array; given a plain
\* object it throws a TypeError (addresses is not iterable).
Iterable(addresses) == addresses = "array"

\* fetchExchangeHoldings: the holdings, a total of 0 where a balance could
\* not be fetched (fetchWalletBalance catches), or the TypeError of the
\* inner loop.
fetchExchangeHoldings ==
    IF \A exchange \in DOMAIN EXCHANGE_WALLETS : Iterable(EXCHANGE_WALLETS[exchange])
        THEN "holdings"
        ELSE "TypeError"

\* generateXPostSummary: the price (fetchXRPPrice yields zeros when
\* CoinGecko fails), the holdings, the ETF quotes (none when Yahoo fails),
\* then the post; anything thrown on the way is caught and null returned.
generateXPostSummary ==
    IF fetchExchangeHoldings = "TypeError" THEN Null ELSE "summary"

\* sendEmail: false without RESEND_API_KEY, else what Resend answers
sendEmail(resendOk) == emailEnabled /\ resendOk

\* sendXPostEmail: false when there is no summary, else sendEmail's result
sendXPostEmail(summary, resendOk) ==
    IF summary = Null THEN FALSE ELSE sendEmail(resendOk)

\* What is kept of a return of generateXPostSummary: who called it, whether
\* every upstream call succeeded, the summary, whether sendEmail was
\* called with it and the status GET /api/x-post answered with.
Summary(src, upstreamOk, summary, sendCalled, status) ==
    [src |-> src, upstreamOk |-> upstreamOk, summary |-> summary,
     sendCalled |-> sendCalled, status |-> status]

\* sendXPostEmail returns: true when the email was handed to Resend, false
\* when the summary could not be built, the send failed or no
\* RESEND_API_KEY is set.  The endpoint answers with the result; the
\* interval's callback drops it.
EmailJobDone ==
    \E job \in emailJobs : \E upstreamOk \in BOOLEAN : \E resendOk \in BOOLEAN :
        LET summary == generateXPostSummary
            success == sendXPostEmail(summary, resendOk)
        IN  /\ emailJobs' = emailJobs \ {job}
            /\ lastSummary' = <<Summary("email", upstreamOk, summary, summary # Null, Null)>>
            /\ lastEmailResponse' = IF job.src = "manual"
                                      THEN EmailResponse(job.secret, 200, TRUE, success)
                                      ELSE lastEmailResponse
            /\ UNCHANGED <<now, emailEnabled, emailSecret, pollTimers, emailLog, lastPoll,
                           pollCount, emailPosts, xPostJobs, rateVars, snapVars,
                           cacheVars, upVars>>

\* GET /api/x-post up to its await: call generateXPostSummary
GetXPost ==
    /\ booted
    /\ emailPosts < MaxEmailPosts
    /\ emailPosts' = emailPosts + 1
    /\ xPostJobs' = xPostJobs + 1
    /\ UNCHANGED <<now, emailEnabled, emailSecret, pollTimers, emailJobs, emailLog,
                   lastPoll, lastEmailResponse, pollCount, lastSummary, rateVars,
                   snapVars, cacheVars, upVars>>

\* generateXPostSummary returns to GET /api/x-post: the summary is sent
\* with status 200, and status 500 when it is null.
GetXPostDone ==
    \E upstreamOk \in BOOLEAN :
        LET summary == generateXPostSummary
        IN  /\ xPostJobs > 0
            /\ xPostJobs' = xPostJobs - 1
            /\ lastSummary' = <<Summary("x-post", upstreamOk, summary, FALSE,
                                        IF summary # Null THEN 200 ELSE 500)>>
            /\ UNCHANGED <<now, emailEnabled, emailSecret, pollTimers, emailJobs, emailLog,
                           lastPoll, lastEmailResponse, pollCount, emailPosts, rateVars,
                           snapVars, cacheVars, upVars>>

\* The clock advances to the instant the interval is due, or by one
\* interval when there is none.
EmailTick ==
    /\ booted
    /\ pollCount < MaxPolls
    /\ pollCount' = pollCount + 1
    /\ \A due \in pollTimers : now < due
    /\ now' \in (IF pollTimers = {} THEN {now + Units(POLL_INTERVAL)} ELSE pollTimers)
    /\ UNCHANGED <<emailEnabled, emailSecret, pollTimers, emailJobs, emailLog, lastPoll,
                   lastEmailResponse, emailPosts, xPostJobs, lastSummary,
                   rateVars, snapVars, cacheVars, upVars>>

\* The email state before the server listens.
InitEmailState ==
    /\ pollTimers = {}
    /\ emailJobs = {}
    /\ emailLog = <<>>
    /\ lastPoll = <<>>
    /\ lastEmailResponse = EmailResponse(Undefined, Null, FALSE, FALSE)
    /\ pollCount = 0
    /\ emailPosts = 0
    /\ xPostJobs = 0
    /\ lastSummary = <<>>

\* A process started a little before a trigger hour or in the morning,
\* with or without RESEND_API_KEY and EMAIL_SECRET.
InitEmail ==
    /\ now \in {T0 + h * MsPerHour + 58 * MsPerMinute + sec * Units(1000) :
                    h \in EmailStartHours, sec \in EmailStartSeconds}
    /\ emailEnabled \in BOOLEAN
    /\ emailSecret \in {Undefined, "alpha"}
    /\ InitEmailState

\* The email state of a specification that sends no email.
InitEmailIdle ==
    /\ emailEnabled = FALSE
    /\ emailSecret = Undefined
    /\ InitEmailState

NextEmail ==
    \/ Listen
    \/ PollTick
    \/ PostSendEmail
    \/ EmailJobDone
    \/ GetXPost
    \/ GetXPostDone
    \/ EmailTick

\* ------------------------------------------------------------------------
\* Upstream requests (server.js 62-64, 89-130, 292-324)
\* ------------------------------------------------------------------------
\* XRPL_NODES, in the order fetchXRPLBalance goes through them
XRPL_NODES == <<"xrplcluster.com", "s1.ripple.com", "s2.ripple.com">>
\* The wallets a balance is asked for
Addresses == {"rA", "rB"}
\* What one node answers to account_info: the account data, a status that
\* is not ok, a body without result.account_data, or nothing (the fetch or
\* response.json() throws).
NodeAnswers == {"balance", "notOk", "noAccount", "throws"}
\* What CoinGecko answers: a body, status 429, another status that is not
\* ok, or nothing (the fetch or response.json() throws).
CoinGeckoAnswers == {"data", "429", "notOk", "throws"}

\* if (timeSinceLastCall < COINGECKO_MIN_INTERVAL): the time to wait
waitTime(t) ==
    IF t - lastCoinGeckoCall < Units(COINGECKO_MIN_INTERVAL)
        THEN Units(COINGECKO_MIN_INTERVAL) - (t - lastCoinGeckoCall)
        ELSE 0

\* lastCoinGeckoCall = Date.now(), and the fetch is started
StartCoinGeckoFetch(call) ==
    /\ lastCoinGeckoCall' = now
    /\ cgStarts' = Append(cgStarts, now)
    /\ cgRequests' = (cgRequests \ {call})
                        \cup {[call EXCEPT !.pc = "fetch", !.fetches = call.fetches + 1]}

\* coingeckoRequest up to its first await: the timer when the last call is
\* less than COINGECKO_MIN_INTERVAL ago, else the fetch.
CoingeckoRequest ==
    /\ focus = "coingeckoRequest"
    /\ upCount < MaxCgCalls
    /\ upCount' = upCount + 1
    /\ LET call == [id |-> upCount, pc |-> "sleep", wakeAt |-> now + waitTime(now),
                    fetches |-> 0]
       IN  IF waitTime(now) > 0
            THEN /\ cgRequests' = cgRequests \cup {call}
                 /\ UNCHANGED <<lastCoinGeckoCall, cgStarts>>
            ELSE StartCoinGeckoFetch(call)
    /\ UNCHANGED <<now, lastCgReturn, balanceCalls, lastBalance, balanceCount,
                   upTicks, rateVars, snapVars, cacheVars, emailVars>>

\* The timer of a waiting invocation fires: it goes on to the fetch without
\* looking at lastCoinGeckoCall again.
CoingeckoWake ==
    \E call \in cgRequests :
        /\ call.pc = "sleep"
        /\ call.wakeAt <= now
        /\ StartCoinGeckoFetch(call)
        /\ UNCHANGED <<now, lastCgReturn, balanceCalls, lastBalance, upCount,
                       balanceCount, upTicks, rateVars, snapVars, cacheVars, emailVars>>

\* The fetch of an invocation settles and coingeckoRequest returns: the
\* body, or null for status 429, another status that is not ok and
\* anything thrown.
CoingeckoReturn ==
    \E call \in cgRequests : \E answer \in CoinGeckoAnswers :
        /\ call.pc = "fetch"
        /\ cgRequests' = cgRequests \ {call}
        /\ lastCgReturn' = <<[id |-> call.id, fetches |-> call.fetches, answer |-> answer,
                              result |-> IF answer = "data" THEN 1 ELSE Null]>>
        /\ UNCHANGED <<now, lastCoinGeckoCall, cgStarts, balanceCalls, lastBalance,
                       upCount, balanceCount, upTicks, rateVars, snapVars, cacheVars,
                       emailVars>>

\* A loop that asks the same node again.
SameNode(node) == node

\* for (const node of XRPL_NODES): the node after this one
NextNode(node) == node + 1

\* fetchXRPLBalance up to the fetch from the first node
FetchXRPLBalance ==
    \E address \in Addresses :
        /\ focus = "fetchXRPLBalance"
        /\ balanceCount < MaxBalanceCalls
        /\ balanceCount' = balanceCount + 1
        /\ \A call \in balanceCalls : call.address # address
        /\ balanceCalls' = balanceCalls \cup {[address |-> address, node |-> 1,
                                                tried |-> <<>>]}
        /\ UNCHANGED <<now, lastCoinGeckoCall, cgRequests, cgStarts, lastCgReturn,
                       lastBalance, upCount, upTicks, rateVars, snapVars, cacheVars, emailVars>>

\* The node asked answers: the balance is returned; on any other answer
\* the loop goes on to the next node, and after the last one
\* fetchXRPLBalance returns null.
XrplNodeAnswer ==
    \E call \in balanceCalls : \E answer \in NodeAnswers :
        LET tried == Append(call.tried, XRPL_NODES[call.node])
            return(result) ==
                /\ balanceCalls' = balanceCalls \ {call}
                /\ lastBalance' = <<[address |-> call.address, tried |-> tried,
                                     result |-> result]>>
        IN  /\ Len(call.tried) < 2 * Len(XRPL_NODES)
            /\ IF answer = "balance"
                  THEN return(1)
                  ELSE IF NextNode(call.node) > Len(XRPL_NODES)
                          THEN return(Null)
                          ELSE /\ balanceCalls' = (balanceCalls \ {call})
                                    \cup {[call EXCEPT !.node = NextNode(call.node),
                                                       !.tried = tried]}
                               /\ UNCHANGED lastBalance
            /\ UNCHANGED <<now, lastCoinGeckoCall, cgRequests, cgStarts, lastCgReturn,
                           upCount, balanceCount, upTicks, rateVars, snapVars, cacheVars,
                       emailVars>>

\* The clock advances of the upstream specification: one second, or to the
\* instant the timer of a waiting invocation is due, which it does not pass.
UpTick ==
    /\ upTicks < MaxUpTicks
    /\ upTicks' = upTicks + 1
    /\ \E t \in {now + Units(1000)} \cup {call.wakeAt : call \in cgRequests} :
        /\ t > now
        /\ \A call \in cgRequests : call.pc = "sleep" => t <= call.wakeAt
        /\ now' = t
    /\ UNCHANGED <<lastCoinGeckoCall, cgRequests, cgStarts, lastCgReturn, balanceCalls,
                   lastBalance, upCount, balanceCount, rateVars, snapVars, cacheVars,
                   emailVars>>

\* No call of either function has been made.
InitUpstream ==
    /\ lastCoinGeckoCall = 0
    /\ cgRequests = {}
    /\ cgStarts = <<>>
    /\ lastCgReturn = <<>>
    /\ balanceCalls = {}
    /\ lastBalance = <<>>
    /\ upCount = 0
    /\ balanceCount = 0
    /\ upTicks = 0

NextUpstream ==
    \/ CoingeckoRequest
    \/ CoingeckoWake
    \/ CoingeckoReturn
    \/ FetchXRPLBalance
    \/ XrplNodeAnswer
    \/ UpTick

\* ------------------------------------------------------------------------
\* Specifications
\* ------------------------------------------------------------------------
\* The rate limiter, called by two clients while the clock advances.
InitRateSpec == now = T0 /\ InitRate /\ InitSnapIdle /\ InitCacheIdle /\ InitEmailIdle
    /\ InitUpstream

SpecRate == InitRateSpec /\ [][NextRate]_vars

\* The daily scheduler and the snapshots it, the startup and the manual
\* endpoint take.
InitSnapSpec == InitSnap /\ InitRate /\ InitCacheIdle /\ InitEmailIdle
    /\ InitUpstream

SpecSnap == InitSnapSpec /\ [][NextSnap]_vars

\* The email scheduler and the manual trigger, from the start of the
\* server on.
InitEmailSpec ==
    /\ InitEmail
    /\ InitUpstream
    /\ InitRate
    /\ InitCacheIdle
    /\ tzOffset = LosAngelesOffset
    /\ booted = FALSE
    /\ dailyHoldingsTrend = <<>>
    /\ exchangeHoldingsCache = [data |-> Null, timestamp |-> Null]
    /\ dailyTimers = {}
    /\ startupTimers = {}
    /\ snapshots = {}
    /\ lastDone = <<>>
    /\ lastFiring = <<>>
    /\ manualCount = 0

SpecEmail == InitEmailSpec /\ [][NextEmail]_vars

\* The daily scheduler over several days, with timers that fire late and
\* snapshots of any duration.
SpecSched == InitSnapSpec /\ [][NextSched]_vars

\* The cached endpoints, requested by two clients while the clock advances
\* and the upstream services answer or fail.
InitCacheSpec == now = T0 /\ InitRateBusy /\ InitSnapIdle /\ InitCache /\ InitEmailIdle
    /\ InitUpstream

SpecCache == InitCacheSpec /\ [][NextCache]_vars

\* coingeckoRequest or fetchXRPLBalance, called while earlier invocations
\* are waiting and the clock advances; a run calls one of the two.
InitUpstreamSpec ==
    /\ now = T0
    /\ InitUpstream
    /\ InitRate
    /\ InitSnapIdle
    /\ focus \in {"coingeckoRequest", "fetchXRPLBalance"}
    /\ anthropic = TRUE
    /\ InitSlots
    /\ InitEmailIdle

SpecUpstream == InitUpstreamSpec /\ [][NextUpstream]_vars

\* ------------------------------------------------------------------------
\* Rate limiter properties
\* ------------------------------------------------------------------------
\* C5: a call is rejected exactly when the client already has 10 accepted
\* calls in the 60 seconds before it (so the first 10 calls of a burst are
\* accepted, the 11th is rejected, and a call 61 seconds after the burst is
\* accepted again), and the accepted calls of one client inside any
\* trailing window (T - 60 s, T] never number more than 10.
Thm_C5_Quota ==
    /\ \A ip \in Clients : \A i \in 1..Len(acceptedLog[ip]) :
            AcceptedInWindow(ip, acceptedLog[ip][i]) <= MAX_REQUESTS
    /\ \A ip \in Clients : AcceptedInWindow(ip, now) <= MAX_REQUESTS
    /\ lastCall.ip # None => (lastCall.limited <=> lastCall.inWindow >= MAX_REQUESTS)

\* A burst of 10 accepted calls, an 11th rejected, and after 61 seconds an
\* accepted call again.
Wit_C5_Quota ==
    /\ Len(acceptedLog["a"]) = MAX_REQUESTS + 1
    /\ \A i \in 1..MAX_REQUESTS : acceptedLog["a"][i] = T0
    /\ lastCall = [ip |-> "a", at |-> T0 + Units(61000), limited |-> FALSE, inWindow |-> 0]

\* C6: a rejected call leaves the stored timestamps of every client as they
\* were.
Thm_C6_RejectRecordsNothing ==
    [][(lastCall' # lastCall /\ lastCall'.limited) => rateLimitMap' = rateLimitMap]_vars

\* C6, second half: the outcome of a call is decided by the accepted calls
\* alone; a client whose oldest counted call has left the window is accepted
\* whatever it was refused in between.
Wit_C6_RejectRecordsNothing ==
    /\ lastCall.ip = "a"
    /\ lastCall.limited
    /\ lastCall.at > T0
    /\ Len(rateLimitMap["a"]) = MAX_REQUESTS
    /\ rateLimitMap["a"][1] = T0

\* ------------------------------------------------------------------------
\* Snapshot and scheduler properties
\* ------------------------------------------------------------------------
\* C7: dailyHoldingsTrend never holds two entries of the same calendar
\* date, whichever of the startup snapshot, the daily timer and the manual
\* endpoint invoked the snapshots and however they overlapped.
Thm_C7_OnePerDate ==
    \A i \in 1..Len(dailyHoldingsTrend) :
        Cardinality({j \in 1..Len(dailyHoldingsTrend) :
            dailyHoldingsTrend[j].date = dailyHoldingsTrend[i].date}) = 1

\* A manual snapshot finished while a timer-driven one was still running,
\* on a date that already had its entry.
Wit_C7_OnePerDate ==
    /\ lastDone # <<>>
    /\ lastDone[1].src = "manual"
    /\ "timer" \in lastDone[1].during
    /\ lastDone[1].found = 1
    /\ lastDone[1].entry \in Entries(dailyHoldingsTrend)

\* C8: a snapshot that finishes on a date of which an entry is stored
\* leaves the trend as long as it was, with exactly one entry of that date:
\* the one this snapshot built.
Thm_C8_Idempotent ==
    (lastDone # <<>> /\ lastDone[1].found > 0) =>
        /\ Len(dailyHoldingsTrend) = lastDone[1].lenBefore
        /\ {e \in Entries(dailyHoldingsTrend) : e.date = lastDone[1].entry.date}
                = {lastDone[1].entry}
        /\ Cardinality({i \in 1..Len(dailyHoldingsTrend) :
                dailyHoldingsTrend[i].date = lastDone[1].entry.date}) = 1

\* The second snapshot of a day, invoked by hand after the startup one,
\* found the day's entry and left its own in the place of it.
Wit_C8_Idempotent ==
    /\ lastDone # <<>>
    /\ lastDone[1].src = "manual"
    /\ lastDone[1].during = {}
    /\ lastDone[1].found = 1
    /\ lastDone[1].lenBefore = 1
    /\ lastDone[1].entry.total = 2
    /\ dailyHoldingsTrend = <<lastDone[1].entry>>

\* C9: the trend never holds more than 90 entries, and an entry that a
\* snapshot drops from it is of a date earlier than the date of every
\* entry that stays (and at most one entry is dropped at a time).
Thm_C9_Last90 ==
    /\ Len(dailyHoldingsTrend) <= TREND_LIMIT
    /\ lastDone # <<>> =>
        /\ Cardinality(lastDone[1].evicted) <= 1
        /\ \A d \in lastDone[1].evicted : \A k \in Entries(dailyHoldingsTrend) :
                d < k.date

\* A snapshot of a new date found 90 entries and dropped the earliest.
Wit_C9_Last90 ==
    /\ lastDone # <<>>
    /\ lastDone[1].lenBefore = TREND_LIMIT
    /\ lastDone[1].found = 0
    /\ Cardinality(lastDone[1].evicted) = 1
    /\ Len(dailyHoldingsTrend) = TREND_LIMIT
    /\ dailyHoldingsTrend[TREND_LIMIT] = lastDone[1].entry

\* The time of day of the daily target, 23:59 UTC.
TargetTimeOfDay == targetHour * MsPerHour + targetMinute * MsPerMinute

\* C10: the timer scheduleDailySnapshot arms is due at a 23:59 UTC, after a
\* delay that is positive and at most 24 hours: today's 23:59 when it is
\* armed before that instant, tomorrow's otherwise. The delay the function
\* would compute at the current time obeys the same bounds.
Thm_C10_NextTarget ==
    /\ \A timer \in dailyTimers :
        /\ timer.at = timer.setAt + timer.delay
        /\ timer.at % MsPerDay = TargetTimeOfDay
        /\ timer.delay > 0
        /\ timer.delay <= MsPerDay
        /\ timer.at \div MsPerDay =
                IF timer.setAt % MsPerDay < TargetTimeOfDay
                    THEN timer.setAt \div MsPerDay
                    ELSE timer.setAt \div MsPerDay + 1
    /\ msUntilTarget(now) > 0
    /\ msUntilTarget(now) <= MsPerDay

\* Armed at 23:00 UTC, the timer is due 59 minutes later.
Wit_C10_NextTarget ==
    \E timer \in dailyTimers :
        /\ timer.setAt % MsPerDay = 23 * MsPerHour
        /\ timer.delay = 59 * MsPerMinute

\* ------------------------------------------------------------------------
\* Cache properties
\* ------------------------------------------------------------------------
\* C1: a request without force-refresh that arrives less than the slot's
\* duration after the slot's last successful fetch is answered from the
\* cache, flagged cached, and makes no upstream call: it does not wait for
\* an upstream fetch, and the response it got is a cached one.
Cex_C1_HitWithinTtl ==
    /\ \A r \in inflight : ~(~r.force /\ r.fresh)
    /\ (lastResponse.ep # None /\ lastResponse.rejected = None
            /\ ~lastResponse.force /\ lastResponse.fresh)
        => (lastResponse.cached /\ ~lastResponse.upstream)

\* C2: when the refresh fetch fails and the slot holds a value fetched
\* before, the response is that value with status 200, flagged cached and
\* stale, and reports no error.
Cex_C2_StaleFallback ==
    (lastResponse.failed /\ lastResponse.held \in Payloads) =>
        /\ lastResponse.status = 200
        /\ lastResponse.cached
        /\ lastResponse.stale
        /\ ~lastResponse.error
        /\ lastResponse.data = lastResponse.held

\* C3: when the refresh fetch fails and no fetch for the slot has ever
\* succeeded, the response has an HTTP error status and an error body.
Cex_C3_ErrorWithoutPrior ==
    (lastResponse.failed /\ ~lastResponse.fetchedBefore) =>
        /\ lastResponse.status >= 400
        /\ lastResponse.error

\* C4 as stated: a request with forceRefresh that is not turned away makes
\* an upstream fetch, and the slot is empty when that fetch starts.
Cex_C4_ForceInvalidates ==
    /\ \A r \in inflight : r.force => r.heldAfter = Null
    /\ (lastResponse.force /\ lastResponse.rejected = None) => lastResponse.upstream

\* C4, amended: a request with forceRefresh makes an upstream fetch, however
\* fresh the slot's entry is, unless it is turned away before the cache is
\* looked at (no API key, rate limit, missing marketData).  When the fetch
\* starts the slot is empty if it is a CoinGecko key, and holds what it
\* held when the request arrived if it is any other slot.
Thm_C4_ForceFetches ==
    /\ \A r \in inflight : r.force =>
            IF r.slot \in CoinGeckoKeys
                THEN r.heldAfter = Null
                ELSE r.heldAfter = r.heldBefore
    /\ lastResponse.force => (lastResponse.upstream <=> lastResponse.rejected = None)

\* A forced request waits for its upstream fetch although it arrived while
\* the entry of its slot was fresh, and the slot still holds that entry.
Wit_C4_ForceFetches ==
    \E r \in inflight :
        /\ r.force
        /\ r.fresh
        /\ r.heldBefore \in Payloads
        /\ r.heldAfter = r.heldBefore
        /\ CacheHit(FALSE, Entry(SlotData(r.slot), lastFetch[r.slot]), now, SlotTTL(r.slot))

IssuedAfter(r, f) == IF r.upstream THEN r.at > f.doneAt ELSE r.at >= f.doneAt

\* C12: a GET /api/etf-data that finds the ETF cache empty is answered with
\* cached:false after an upstream fetch.  When no other request for the slot
\* is waiting for its fetch at the instant that response is sent, every GET
\* /api/etf-data issued after it and less than 60 s after it is answered
\* with cached:true and the data of that response.
Thm_C12_EtfCachedWithinTtl ==
    /\ (lastResponse.ep = "etf" /\ lastResponse.heldBefore = Null)
            => (~lastResponse.cached /\ lastResponse.upstream)
    /\ (/\ lastResponse.ep = "etf"
        /\ firstFetched # <<>>
        /\ firstFetched[1].heldBefore = Null
        /\ firstFetched[1].alone
        /\ IssuedAfter(lastResponse, firstFetched[1])
        /\ lastResponse.at - firstFetched[1].doneAt < Units(ETF_CACHE_DURATION))
            => (/\ lastResponse.status = 200
                /\ lastResponse.cached
                /\ ~lastResponse.upstream
                /\ lastResponse.data = firstFetched[1].data)

\* C12 as stated: whatever else is going on, every GET /api/etf-data issued
\* after the first response and less than 60 s after it is answered with
\* cached:true and the data of the first response.
Cex_C12_EtfSamePayload ==
    (/\ lastResponse.ep = "etf"
     /\ firstFetched # <<>>
     /\ firstFetched[1].heldBefore = Null
     /\ IssuedAfter(lastResponse, firstFetched[1])
     /\ lastResponse.at - firstFetched[1].doneAt < Units(ETF_CACHE_DURATION))
        => (/\ lastResponse.cached
            /\ lastResponse.data = firstFetched[1].data)

\* The cache was empty, the first GET fetched, and a GET issued 30 s after
\* its response is answered from the cache with the same data.
Wit_C12_EtfCachedWithinTtl ==
    /\ lastResponse.ep = "etf"
    /\ firstFetched # <<>>
    /\ firstFetched[1].heldBefore = Null
    /\ firstFetched[1].alone
    /\ lastResponse.at > firstFetched[1].doneAt
    /\ lastResponse.at - firstFetched[1].doneAt < Units(ETF_CACHE_DURATION)
    /\ lastResponse.cached
    /\ lastResponse.data = firstFetched[1].data
\* The three handlers of POST /api/ai-insights
InsightEndpoints == {"insights", "insightsWithAi", "insightsAdditions"}

\* C13: without an ANTHROPIC_API_KEY every POST /api/ai-insights is answered
\* with HTTP 503 and an error body, and the AI provider is not called.
Cex_C13_NoKey503 ==
    (~anthropic /\ lastResponse.ep \in InsightEndpoints)
        => (/\ lastResponse.status = 503
            /\ lastResponse.error
            /\ ~lastResponse.upstream)
\* C14: a request the rate limiter rejects is answered with HTTP 429 and a
\* retryAfter value, no upstream AI call is made for it, and the insight
\* cache holds after it what it held before.
Cex_C14_RateLimit429 ==
    lastResponse.rejected = "rate"
        => (/\ lastResponse.status = 429
            /\ lastResponse.retryAfter # Null
            /\ ~lastResponse.upstream
            /\ lastResponse.heldAfter = lastResponse.heldBefore)
\* C15: POST /api/send-email runs sendXPostEmail only for a request whose
\* secret is identical to EMAIL_SECRET; a request whose secret differs is
\* answered 401 and no sendXPostEmail is started for it.
Thm_C15_SecretGate ==
    /\ \A i \in 1..Len(emailLog) :
            emailLog[i].src = "manual" => emailLog[i].secret = emailSecret
    /\ lastEmailResponse.status # Null
            => (lastEmailResponse.ran <=> lastEmailResponse.secret = emailSecret)
    /\ (lastEmailResponse.status # Null /\ lastEmailResponse.secret # emailSecret)
            => (/\ lastEmailResponse.status = 401
                /\ ~lastEmailResponse.ran
                /\ ~lastEmailResponse.success)

\* EMAIL_SECRET is set; a request with the right secret has started the
\* email, and the last request, with another secret, was answered 401.
Wit_C15_SecretGate ==
    /\ emailSecret = "alpha"
    /\ \E i \in 1..Len(emailLog) : emailLog[i].src = "manual"
    /\ lastEmailResponse.status = 401
    /\ lastEmailResponse.secret = "beta"
\* C17: the interval's callback runs every 60 s and starts the email if and
\* only if the UTC hour is 16, 21 or 0 and the UTC minute is 0 or 1; without
\* a RESEND_API_KEY no interval is set and no poll ever runs.
Thm_C17_PollRule ==
    /\ ~emailEnabled =>
            (/\ pollTimers = {}
             /\ lastPoll = <<>>
             /\ \A i \in 1..Len(emailLog) : emailLog[i].src # "scheduled")
    /\ lastPoll # <<>> =>
            (/\ lastPoll[1].started <=>
                    (/\ getUTCHours(lastPoll[1].at) \in {16, 21, 0}
                     /\ getUTCMinutes(lastPoll[1].at) \in {0, 1})
             /\ lastPoll[1].started <=>
                    (\E i \in 1..Len(emailLog) :
                        /\ emailLog[i].src = "scheduled"
                        /\ emailLog[i].startedAt = lastPoll[1].at)
             /\ lastPoll[1].previous # Null =>
                    lastPoll[1].at - lastPoll[1].previous = 60 * Units(1000))

\* The poll in minute 1 after midnight UTC has started the email, one
\* interval after the poll before it.
Wit_C17_PollRule ==
    /\ lastPoll # <<>>
    /\ lastPoll[1].started
    /\ getUTCHours(lastPoll[1].at) = 0
    /\ getUTCMinutes(lastPoll[1].at) = 1
    /\ lastPoll[1].previous # Null

\* C18: with polls 60 s apart the email is started at most once for each
\* trigger hour of each day.
Cex_C18_OncePerTrigger ==
    \A i, j \in 1..Len(emailLog) :
        (/\ i < j
         /\ emailLog[i].src = "scheduled"
         /\ emailLog[j].src = "scheduled")
            => emailLog[i].startedAt \div MsPerHour # emailLog[j].startedAt \div MsPerHour
\* The endpoints whose handler stores what its fetch returned, whatever the
\* slot holds by then.
RaceEndpoints == {"etf", "holdings"}

\* C16: a request that misses a slot while another request for the slot is
\* waiting for its fetch makes a fetch of its own, and every fetch that
\* completes overwrites the slot: the slot holds the value and the time of
\* the fetch that completed last.
Thm_C16_LastWriterWins ==
    /\ (/\ lastResponse.ep \in RaceEndpoints
        /\ lastResponse.racing
        /\ ~lastResponse.cached)
            => lastResponse.upstream
    /\ (lastResponse.ep = "etf" /\ lastResponse.upstream)
            => etfDataCache = Entry(lastResponse.data, lastResponse.doneAt)
    /\ (lastResponse.ep = "holdings" /\ lastResponse.upstream)
            => exchangeHoldingsCache = Entry(lastResponse.data, lastResponse.doneAt)

\* The ETF slot was filled and has expired; two requests missed it, one
\* while the other was waiting, both fetches have completed, and the slot
\* holds what the later one fetched, which is not what the slot held before.
Wit_C16_LastWriterWins ==
    /\ lastResponse.ep = "etf"
    /\ lastResponse.heldBefore # Null
    /\ lastResponse.racing
    /\ lastResponse.upstream
    /\ lastResponse.alone
    /\ inflight = {}
    /\ firstFetched # <<>>
    /\ firstFetched[1].doneAt < lastResponse.at
    /\ etfDataCache.data = lastResponse.data
    /\ etfDataCache.data # lastResponse.heldBefore
\* C20: a request whose upstream fetch failed leaves its slot as it was,
\* value and timestamp: neither the turn that starts the fetch nor the turn
\* that answers changes it.
Cex_C20_FailureKeepsSlot ==
    (lastResponse.upstream /\ lastResponse.failed)
        => (/\ lastResponse.heldAfter = lastResponse.heldBefore
            /\ lastResponse.slotKept)
\* C19: whatever an upstream answers (a network error, a status other than
\* 2xx, a payload of another shape), the handler catches it: no request
\* ends with an exception thrown out of its handler instead of a response.
Cex_C19_AllCaught == uncaught = {}

\* A step empties a slot that held a value.
Emptied(slot) == SlotData(slot) # Null /\ SlotData(slot)' = Null

\* C21 as stated: a slot that holds a value is emptied by no step but the
\* clear-cache operation.
Cex_C21_EmptiedByClearOnly ==
    [][(\E slot \in Slots : Emptied(slot)) => GetXrpClearCache]_vars

\* C21, amended: a slot that holds a value is emptied by two operations
\* only, GET /api/xrp/clear-cache and GET /api/xrp/all with refresh=true
\* up to its upstream fetch; either leaves every CoinGecko slot empty and
\* empties no slot outside the CoinGecko cache.
Thm_C21_EmptiedByClearOrForce ==
    [][(\E slot \in Slots : Emptied(slot)) =>
            /\ GetXrpClearCache \/ GetXrp("all", "xrp_all", TRUE)
            /\ \A key \in CoinGeckoKeys : coingeckoCache'[key] = Entry(Null, Null)
            /\ \A slot \in Slots \ CoinGeckoKeys : ~Emptied(slot)]_vars

\* A CoinGecko slot whose fetch succeeded before is empty, and no request
\* is waiting that could have forced it: it was cleared.
Wit_C21_EmptiedByClearOrForce ==
    \E key \in CoinGeckoKeys :
        /\ lastFetch[key] # Null
        /\ coingeckoCache[key] = Entry(Null, Null)
        /\ inflight = {}
        /\ uncaught = {}

\* ------------------------------------------------------------------------
\* Upstream request properties
\* ------------------------------------------------------------------------
\* C22 as stated: nothing is retried.  One invocation of coingeckoRequest
\* starts at most one fetch, and one invocation of fetchXRPLBalance asks at
\* most one node: a failed attempt is not repeated against another server.
Cex_C22_NothingRetried ==
    /\ \A call \in cgRequests : call.fetches <= 1
    /\ \A i \in 1..Len(lastCgReturn) : lastCgReturn[i].fetches <= 1
    /\ \A call \in balanceCalls : call.tried = <<>>
    /\ \A i \in 1..Len(lastBalance) : Len(lastBalance[i].tried) <= 1

\* C22, amended: no server is asked twice for one query.  One invocation
\* of coingeckoRequest starts at most one fetch and has started exactly one
\* when it returns.  One invocation of fetchXRPLBalance asks the nodes of
\* XRPL_NODES in their order, each at most once, going on to the next node
\* only while no balance was returned: null is returned only after all
\* three nodes were asked.
Thm_C22_EachServerOnce ==
    /\ \A call \in cgRequests : call.fetches = (IF call.pc = "fetch" THEN 1 ELSE 0)
    /\ \A i \in 1..Len(lastCgReturn) : lastCgReturn[i].fetches = 1
    /\ \A call \in balanceCalls :
            /\ call.node = Len(call.tried) + 1
            /\ call.node <= Len(XRPL_NODES)
            /\ call.tried = SubSeq(XRPL_NODES, 1, Len(call.tried))
    /\ \A i \in 1..Len(lastBalance) :
            /\ Len(lastBalance[i].tried) \in 1..Len(XRPL_NODES)
            /\ lastBalance[i].tried = SubSeq(XRPL_NODES, 1, Len(lastBalance[i].tried))
            /\ lastBalance[i].result = Null => lastBalance[i].tried = XRPL_NODES

\* fetchXRPLBalance has returned a balance it got from the third node,
\* after the first two had failed.
Wit_C22_EachServerOnce ==
    /\ lastBalance # <<>>
    /\ lastBalance[1].tried = XRPL_NODES
    /\ lastBalance[1].result # Null

\* C23: a request whose body lacks the required field (message for POST
\* /api/chat, marketData for POST /api/ai-insights) is answered with status
\* 400, and no upstream AI call is made for it.
Cex_C23_MissingField400 ==
    /\ \A r \in inflight : ~r.lacks
    /\ lastResponse.lacks => (lastResponse.status = 400 /\ ~lastResponse.upstream)

\* C24: freshness is sound.  A response flagged cached and not stale that
\* carries the data of a fetch that succeeded carries data that were
\* fetched less than the slot's duration before the response was sent.
Cex_C24_FreshnessSound ==
    (lastResponse.cached /\ ~lastResponse.stale /\ lastResponse.data \in Payloads) =>
        /\ lastFetch[lastResponse.slot] # Null
        /\ lastResponse.doneAt - lastFetch[lastResponse.slot] < SlotTTL(lastResponse.slot)

\* C25: a request with forceRefresh changes the entry of its own key only.
\* Neither the turn it arrives in nor the turn its fetch returns in changes
\* what is stored under any other key.
Cex_C25_ForceTouchesOneKey ==
    [][\A r \in (inflight' \ inflight) \cup (inflight \ inflight') :
            r.force => \A slot \in Slots \ {r.slot} : SlotKept(slot)]_vars

\* C26: any two upstream requests sent through coingeckoRequest are
\* started at least COINGECKO_MIN_INTERVAL apart, also when several
\* invocations are waiting in coingeckoRequest at the same time.
Cex_C26_MinInterval ==
    \A i, j \in 1..Len(cgStarts) :
        i < j => cgStarts[j] - cgStarts[i] >= Units(COINGECKO_MIN_INTERVAL)

\* C27: the timestamp stored in insightCache never decreases: each write
\* stores a timestamp greater than or equal to the one it replaces,
\* however the requests to POST /api/ai-insights overlap.
Cex_C27_TimestampMonotone ==
    [][insightCache' # insightCache =>
            insightCache'.timestamp >= insightCache.timestamp]_vars

\* C28: once the daily scheduler has been started, the armed daily timers
\* and the running snapshots that a daily timer started are together
\* exactly one; snapshots started by the startup timer or by the POST
\* handler leave the count alone.
TimerDriven == {inv \in snapshots : inv.src = "timer"}

Thm_C28_OneDailyTimer ==
    booted => Cardinality(dailyTimers) + Cardinality(TimerDriven) = 1

\* A daily timer has fired in this run, its snapshot is done and the next
\* timer is armed while a manual snapshot is running.
Wit_C28_OneDailyTimer ==
    /\ lastFiring # <<>> /\ lastFiring[1].firedAt > T0 + MsPerDay \div 2
    /\ lastDone # <<>> /\ lastDone[1].src = "timer"
    /\ TimerDriven = {}
    /\ \E timer \in dailyTimers : timer.setAt > lastFiring[1].firedAt
    /\ \E inv \in snapshots : inv.src = "manual"


\* C29: with RESEND_API_KEY set and every upstream call succeeding, the
\* email action produces a summary and calls sendEmail with it, and GET
\* /api/x-post answers with the summary and status 200.
Cex_C29_PipelineReachesSend ==
    (lastSummary # <<>> /\ lastSummary[1].upstreamOk)
        => (/\ (lastSummary[1].src = "email" /\ emailEnabled)
                    => (lastSummary[1].summary # Null /\ lastSummary[1].sendCalled)
            /\ lastSummary[1].src = "x-post"
                    => (lastSummary[1].summary # Null /\ lastSummary[1].status = 200))


\* C30: without EMAIL_SECRET no request to POST /api/send-email is
\* authorized: every request, one without a secret field included, is
\* answered 401 and sendXPostEmail is not run for it.
Cex_C30_NoSecretNoAccess ==
    emailSecret = Undefined
        => (/\ \A i \in 1..Len(emailLog) : emailLog[i].src # "manual"
            /\ \A job \in emailJobs : job.src # "manual"
            /\ lastEmailResponse.status # Null
                    => (lastEmailResponse.status = 401 /\ ~lastEmailResponse.ran))


\* The endpoints that ask the limiter
LimitedEndpoints == {"insights", "insightsWithAi", "chat"}

\* How much of its quota the client has used at time t
Used(map, ip, t) == Len(recentRequests(map[ip], t))

\* C31: POST /api/ai-insights and POST /api/chat ask the limiter before
\* they look at the cache or at the body: a request the limiter accepts
\* uses one unit of its client's quota, whether it is then answered from
\* the cache, with 400 or after an upstream call; a request of a client
\* whose quota is used up is answered 429 whatever the cache holds; a
\* request answered 503 for the missing AI client uses no quota.
Thm_C31_LimiterFirst ==
    [][(requestCount' = requestCount + 1 /\ focus \in LimitedEndpoints) =>
        IF ~anthropic /\ focus # "insightsWithAi"
            THEN lastResponse'.status = 503 /\ rateLimitMap' = rateLimitMap
            ELSE LET ip == lastCall'.ip IN
                 /\ lastCall'.at = now
                 /\ \A other \in Clients \ {ip} : rateLimitMap'[other] = rateLimitMap[other]
                 /\ IF Used(rateLimitMap, ip, now) >= MAX_REQUESTS
                        THEN /\ lastResponse'.status = 429
                             /\ lastResponse'.at = now
                             /\ inflight' = inflight
                             /\ rateLimitMap' = rateLimitMap
                        ELSE /\ Used(rateLimitMap', ip, now) = Used(rateLimitMap, ip, now) + 1
                             /\ inflight' = inflight
                                    => (/\ lastResponse'.at = now
                                        /\ \/ lastResponse'.status = 400
                                           \/ lastResponse'.cached)]_vars

\* The insight cache is fresh, a client has been answered from it, and
\* the last request, of the client whose quota is used up, got 429.
Wit_C31_LimiterFirst ==
    /\ lastResponse.ep = "insights"
    /\ lastResponse.status = 429
    /\ ~lastResponse.force
    /\ insightCache.data # Null
    /\ FreshAt("insights", now)
    /\ Len(acceptedLog["a"]) = 1


\* C32: the limiter's answer to a client is decided by the times of the
\* client's own accepted calls, whatever the other clients have called,
\* and a call leaves the stored list of every other client as it was.
Thm_C32_Isolation ==
    [][(lastCall' # lastCall \/ rateLimitMap' # rateLimitMap) =>
        LET ip == lastCall'.ip IN
        /\ lastCall'.at = now
        /\ lastCall'.limited <=> AcceptedInWindow(ip, now) >= MAX_REQUESTS
        /\ \A other \in Clients \ {ip} :
                /\ rateLimitMap'[other] = rateLimitMap[other]
                /\ acceptedLog'[other] = acceptedLog[other]]_vars

\* The other client has been accepted inside the window, and the client's
\* tenth call in the window is accepted all the same.
Wit_C32_Isolation ==
    /\ lastCall.ip = "a"
    /\ ~lastCall.limited
    /\ lastCall.inWindow = MAX_REQUESTS - 1
    /\ Len(rateLimitMap["b"]) = 1
    /\ rateLimitMap["b"][1] > lastCall.at - Units(RATE_LIMIT_WINDOW)
    /\ rateLimitMap["b"][1] <= lastCall.at


\* The stored timestamps that are less than one window old at time t, and
\* those that are at most one window old.
YoungerThanWindow(requests, t) ==
    SelectSeq(requests, LAMBDA x : t - x < Units(RATE_LIMIT_WINDOW))
NotOlderThanWindow(requests, t) ==
    SelectSeq(requests, LAMBDA x : t - x <= Units(RATE_LIMIT_WINDOW))

\* A call of the limiter has been made in this step.
Called == lastCall' # lastCall \/ rateLimitMap' # rateLimitMap

\* C35: each call drops exactly the timestamps older than 60 s, so that one
\* exactly 60 000 ms old still counts: the call is refused when 10 stored
\* timestamps are at most 60 s old, and an accepted call stores those with
\* its own time appended.
Cex_C35_EdgeCounts ==
    [][Called =>
        LET ip == lastCall'.ip
            kept == NotOlderThanWindow(rateLimitMap[ip], now)
        IN  /\ lastCall'.limited <=> Len(kept) >= MAX_REQUESTS
            /\ ~lastCall'.limited => rateLimitMap'[ip] = Append(kept, now)]_vars

\* C35, as the code has it: each call drops the timestamps that are 60 s
\* old or older.  The call is refused when 10 stored timestamps are less
\* than 60 s old and then stores nothing; an accepted call stores those
\* with its own time appended.
Thm_C35_WindowEdge ==
    [][Called =>
        LET ip == lastCall'.ip
            kept == YoungerThanWindow(rateLimitMap[ip], now)
        IN  /\ lastCall'.limited <=> Len(kept) >= MAX_REQUESTS
            /\ ~lastCall'.limited => rateLimitMap'[ip] = Append(kept, now)
            /\ lastCall'.limited => rateLimitMap'[ip] = rateLimitMap[ip]]_vars

\* Ten calls accepted at T0, and a call exactly 60 000 ms later accepted:
\* the ten timestamps are gone from the stored list.
Wit_C35_WindowEdge ==
    /\ lastCall = [ip |-> "a", at |-> T0 + Units(RATE_LIMIT_WINDOW), limited |-> FALSE,
                   inWindow |-> 0]
    /\ Len(acceptedLog["a"]) = MAX_REQUESTS + 1
    /\ \A i \in 1..MAX_REQUESTS : acceptedLog["a"][i] = T0
    /\ rateLimitMap["a"] = <<T0 + Units(RATE_LIMIT_WINDOW)>>


\* The values of the days parameter that are asked for
TrendDays == {1, 2, TREND_LIMIT, TREND_LIMIT + 1}

\* C33: dailyHoldingsTrend is in strictly ascending order of date; the
\* latest field of GET /api/exchange/trend is the entry of the greatest
\* date, and with days = N >= 1 the trend field holds the min(N, count)
\* entries of the greatest dates.  (In a trend in strictly ascending
\* order the entry of the greatest date is the last one, and the k
\* entries of the greatest dates are the last k.)
Thm_C33_SortedTrend ==
    /\ \A i \in 1..(Len(dailyHoldingsTrend) - 1) :
            dailyHoldingsTrend[i].date < dailyHoldingsTrend[i + 1].date
    /\ \A days \in TrendDays :
        LET body == GetExchangeTrend(days)
            count == Len(dailyHoldingsTrend)
            least == IF days < count THEN days ELSE count
        IN  /\ body.count = count
            /\ Len(body.trend) = least
            /\ \A i \in 1..least : body.trend[i] = dailyHoldingsTrend[count - least + i]
            /\ body.latest = IF count = 0 THEN Null ELSE dailyHoldingsTrend[count]

\* The trend holds 90 entries, the last of them stored by a snapshot of
\* this run on a date that had no entry.
Wit_C33_SortedTrend ==
    /\ Len(dailyHoldingsTrend) = TREND_LIMIT
    /\ lastDone # <<>>
    /\ lastDone[1].src \in {"manual", "timer"}
    /\ lastDone[1].found = 0
    /\ lastDone[1].lenBefore = TREND_LIMIT - 1
    /\ dailyHoldingsTrend[TREND_LIMIT] = lastDone[1].entry
    /\ lastDone[1].entry.timestamp > T0 + 5 * MsPerMinute


\* C34: POST /api/ai-insights answers from its cache only a request whose
\* marketData is the marketData the stored analysis was generated from; a
\* request with other marketData makes an upstream call of its own, inside
\* the cache duration too.
Cex_C34_CacheKeyedByMarketData ==
    (/\ lastResponse.ep \in {"insights", "insightsWithAi"}
     /\ lastResponse.cached
     /\ ~lastResponse.stale)
        => lastResponse.marketData = generatedFrom[lastResponse.slot]

====
